---------------------------- MODULE Spec2Model ----------------------------
(***************************************************************************)
(* A model of the read path of dexrs (a reader for Dalvik Executable       *)
(* files): opening a container (header, id tables, verifier), the          *)
(* offset-based accessors, the instruction iterator and pretty-printer,    *)
(* the encoded-catch-handler iterator, the encoded-value decoder, the      *)
(* MUTF-8 decoder and the class-data iterators.                            *)
(*                                                                         *)
(* Conventions.  A byte slice is a sequence of 0..255 and is indexed from  *)
(* 0 as in the source (At).  A u32 (and any usize derived from one) is a   *)
(* pair of 16-bit limbs [hi, lo] so that values up to 2^32-1 and sums of   *)
(* them are representable; hi may exceed 16 bits for usize values.  A      *)
(* Result is a record whose field kind is "Ok", "Err" or "Panic"; "Panic"  *)
(* stands for every abort of the process (panic!, unwrap on Err, todo!,    *)
(* slice index out of range, arithmetic overflow in a checked build).      *)
(***************************************************************************)
EXTENDS Integers, Sequences, FiniteSets, TLC

(***************************************************************************)
(* Bounds of the model.                                                    *)
(***************************************************************************)
MaxExtra == 16        \* container bytes after the 112-byte header
MaxProbe == 2         \* indices probed by get_X(i)
MaxUnits == 5         \* length of a code-unit stream
MaxBytes == 3         \* length of a byte window handed to a decoder
MaxMembers == 2       \* members per class-data section

(***************************************************************************)
(* Wide integers.                                                          *)
(***************************************************************************)
Base == 256 * 256

Big(n) == [hi |-> n \div Base, lo |-> n % Base]

U32_MAX == [hi |-> 65535, lo |-> 65535]

U16_MAX == Base - 1

BigLt(a, b) == a.hi < b.hi \/ (a.hi = b.hi /\ a.lo < b.lo)

BigLe(a, b) == a = b \/ BigLt(a, b)

BigAdd(a, b) ==
  [hi |-> a.hi + b.hi + ((a.lo + b.lo) \div Base), lo |-> (a.lo + b.lo) % Base]

\* a - b for b <= a
BigSub(a, b) ==
  IF a.lo >= b.lo THEN [hi |-> a.hi - b.hi, lo |-> a.lo - b.lo]
  ELSE [hi |-> a.hi - b.hi - 1, lo |-> a.lo + Base - b.lo]

\* a * k for a small k
BigMul(a, k) ==
  [hi |-> a.hi * k + ((a.lo * k) \div Base), lo |-> (a.lo * k) % Base]

\* the value of a wide integer known to be below 2^31
Small(a) == a.hi * Base + a.lo

IsSmall(a) == a.hi < 32768

FitsU32(a) == a.hi < Base

\* `as u32` of a usize
WrapU32(a) == [hi |-> a.hi % Base, lo |-> a.lo]

(***************************************************************************)
(* Byte slices.                                                            *)
(***************************************************************************)
Byte == 0..255

At(s, i) == s[i + 1]

\* s[from..]
SliceFrom(s, from) == SubSeq(s, from + 1, Len(s))

\* s[from..to]
Slice(s, from, to) == SubSeq(s, from + 1, to)

Zeros(n) == [i \in 1..n |-> 0]

\* little-endian u32 at byte offset off (the slice is long enough)
U32At(s, off) ==
  [hi |-> At(s, off + 2) + 256 * At(s, off + 3),
   lo |-> At(s, off) + 256 * At(s, off + 1)]

LE32(v) == << v.lo % 256, v.lo \div 256, v.hi % 256, v.hi \div 256 >>

Ok(v) == [kind |-> "Ok", val |-> v]

Err(e) == [kind |-> "Err", err |-> e]

Panic == [kind |-> "Panic"]

None == [some |-> FALSE]

Some(v) == [some |-> TRUE, val |-> v]

(***************************************************************************)
(* The container and the plain reinterpretation helpers.  A container is   *)
(* its bytes together with the address of its first byte modulo 8, which   *)
(* is all the alignment checks of the plain crate look at.                 *)
(***************************************************************************)
HeaderSize == 112

HeaderV41Size == 120

DEX_MAGIC == << 100, 101, 120, 10 >>

DEX_MAGIC_VERSIONS ==
  { << 48, 51, 53, 0 >>, << 48, 51, 55, 0 >>, << 48, 51, 56, 0 >>,
    << 48, 51, 57, 0 >>, << 48, 52, 48, 0 >>, << 48, 52, 49, 0 >> }

DEX_ENDIAN_CONSTANT == [hi |-> 4660, lo |-> 22136]

\* size_of and align_of of the reinterpreted types
TypeSize ==
  [Header |-> 112, u32 |-> 4, u16 |-> 2, StringId |-> 4, TypeId |-> 4,
   ProtoId |-> 12, FieldId |-> 8, MethodId |-> 8, ClassDef |-> 32,
   MapItem |-> 12, MethodHandleItem |-> 8, CallSiteIdItem |-> 4,
   HiddenapiClassData |-> 24, CodeItem |-> 16, TryItem |-> 8, TypeItem |-> 2]

TypeAlign ==
  [Header |-> 4, u32 |-> 4, u16 |-> 2, StringId |-> 4, TypeId |-> 4,
   ProtoId |-> 4, FieldId |-> 4, MethodId |-> 4, ClassDef |-> 4,
   MapItem |-> 4, MethodHandleItem |-> 2, CallSiteIdItem |-> 4,
   HiddenapiClassData |-> 8, CodeItem |-> 4, TryItem |-> 4, TypeItem |-> 2]

\* plain::is_aligned::<T>(&base[off..])
is_aligned(base, off, T) == (base.addr + off) % TypeAlign[T] = 0

\* plain's T::from_bytes(&base[off..]) for off <= len: alignment, then length
from_bytes(base, off, T) ==
  IF ~is_aligned(base, off, T) THEN "BadAlignment"
  ELSE IF Len(base.bytes) - off < TypeSize[T] THEN "TooShort"
  ELSE "Ok"

\* plain's T::slice_from_bytes_len(&base[off..], len) for off <= len(base);
\* len is a wide integer
slice_from_bytes_len(base, off, len, T) ==
  IF ~is_aligned(base, off, T) THEN "BadAlignment"
  ELSE IF BigLt(Big(Len(base.bytes) - off), BigMul(len, TypeSize[T])) THEN "TooShort"
  ELSE "Ok"

\* Header::from_bytes: the fields of the header at the start of the container
Header(b) ==
  [magic |-> Slice(b, 0, 8), checksum |-> U32At(b, 8),
   file_size |-> U32At(b, 32), header_size |-> U32At(b, 36),
   endian_tag |-> U32At(b, 40), link_size |-> U32At(b, 44),
   link_off |-> U32At(b, 48), map_off |-> U32At(b, 52),
   string_ids_size |-> U32At(b, 56), string_ids_off |-> U32At(b, 60),
   type_ids_size |-> U32At(b, 64), type_ids_off |-> U32At(b, 68),
   proto_ids_size |-> U32At(b, 72), proto_ids_off |-> U32At(b, 76),
   field_ids_size |-> U32At(b, 80), field_ids_off |-> U32At(b, 84),
   method_ids_size |-> U32At(b, 88), method_ids_off |-> U32At(b, 92),
   class_defs_size |-> U32At(b, 96), class_defs_off |-> U32At(b, 100),
   data_size |-> U32At(b, 104), data_off |-> U32At(b, 108)]

IsDigit(c) == c \in 48..57

\* Header::get_version: the three version bytes parsed as a decimal u32,
\* 0 when they do not parse (str::parse accepts a leading '+')
get_version(header) ==
  LET a == At(header.magic, 4)
      b == At(header.magic, 5)
      c == At(header.magic, 6)
  IN  IF IsDigit(a) /\ IsDigit(b) /\ IsDigit(c)
        THEN 100 * (a - 48) + 10 * (b - 48) + (c - 48)
      ELSE IF a = 43 /\ IsDigit(b) /\ IsDigit(c)
        THEN 10 * (b - 48) + (c - 48)
      ELSE 0

EmptySlice == [off |-> 0, len |-> 0]

\* DexFile::get_section::<T>(base, offset, len): the table as (offset, length),
\* empty when it does not lie strictly inside the container or is misaligned
get_section(base, offset, len, T) ==
  LET size == Big(Len(base.bytes))
      section_size == BigMul(len, TypeSize[T])
  IN  IF len = Big(0) THEN EmptySlice
      ELSE IF BigLe(size, BigAdd(offset, section_size)) \/ BigLe(size, offset)
        THEN EmptySlice
      ELSE IF slice_from_bytes_len(base, Small(offset), len, T) = "Ok"
        THEN [off |-> Small(offset), len |-> Small(len)]
      ELSE EmptySlice

\* DexFile::header_available
header_available(base) ==
  Len(base.bytes) >= TypeSize["Header"] /\ is_aligned(base, 0, "Header")

(***************************************************************************)
(* DexFile: construction (from_raw_parts), the open-time checks (init)     *)
(* and the raw data accessors.                                             *)
(***************************************************************************)
\* check_lt_result!(idx, count, ..): the error raised when idx >= count
DexIndexError == Err("DexIndexError")

\* DexFile::non_null_data_ptr::<T>(offset): the offset of the value
non_null_data_ptr(base, offset, T) ==
  IF offset = Big(0) THEN Panic
  ELSE IF BigLt(Big(Len(base.bytes)), offset) THEN Panic
  ELSE LET r == from_bytes(base, Small(offset), T)
       IN  IF r = "Ok" THEN Ok(Small(offset))
           ELSE IF r = "TooShort" THEN Err("DexLayoutError")
           ELSE Panic

\* DexFile::data_ptr::<T>(offset)
data_ptr(base, offset, T) ==
  IF offset = Big(0) THEN Ok(None)
  ELSE LET r == non_null_data_ptr(base, offset, T)
       IN  IF r.kind = "Ok" THEN Ok(Some(r.val)) ELSE r

\* DexFile::non_null_array_data_ptr::<T>(offset, len): the array as
\* (offset, length)
non_null_array_data_ptr(base, offset, len, T) ==
  IF offset = Big(0) THEN Panic
  ELSE IF BigLt(Big(Len(base.bytes)), offset) THEN Panic
  ELSE LET r == slice_from_bytes_len(base, Small(offset), len, T)
       IN  IF r = "Ok" THEN Ok([off |-> Small(offset), len |-> Small(len)])
           ELSE IF r = "TooShort" THEN Err("DexLayoutError")
           ELSE Panic

\* DexFile::array_data_ptr::<T>(offset, len)
array_data_ptr(base, offset, len, T) ==
  IF offset = Big(0) THEN Ok(None)
  ELSE LET r == non_null_array_data_ptr(base, offset, len, T)
       IN  IF r.kind = "Ok" THEN Ok(Some(r.val)) ELSE r

\* DexFile::maplist_available
maplist_available(base, header) ==
  IF header.map_off = Big(0) THEN FALSE
  ELSE LET size == Big(Len(base.bytes))
           end == BigAdd(header.map_off, Big(4))
       IN  BigLt(size, end) \/ ~is_aligned(base, 0, "u32")

\* the fields of the i-th MapItem of the list at map_list_off
MapItemAt(base, map_list_off, i) ==
  LET o == map_list_off + i * TypeSize["MapItem"]
  IN  [type_ |-> At(base.bytes, o) + 256 * At(base.bytes, o + 1),
       size |-> U32At(base.bytes, o + 4),
       off |-> U32At(base.bytes, o + 8)]

\* the discriminants of MapItemType
MapItemTypes ==
  {0, 1, 2, 3, 4, 5, 6, 7, 8, 4096, 4097, 4098, 4099,
   8192, 8193, 8194, 8195, 8196, 8197, 8198, 61440}

\* the body of the loop over the map items in init_sections_from_maplist:
\* the set of outcomes for one item (matching on a value that is no
\* discriminant of MapItemType is undefined behaviour)
MapItemStep(base, dex, item) ==
  IF item.type_ = 8
    THEN {[dex EXCEPT !.method_handles =
              get_section(base, item.off, item.size, "MethodHandleItem")]}
  ELSE IF item.type_ = 7
    THEN {[dex EXCEPT !.call_site_ids =
              get_section(base, item.off, item.size, "CallSiteIdItem")]}
  ELSE IF item.type_ = 61440
    THEN IF BigLt(Big(Len(base.bytes)), BigAdd(item.off, item.size))
           THEN {Panic}
         ELSE IF ~is_aligned(base, Small(item.off), "HiddenapiClassData")
                 \/ Small(item.size) < TypeSize["HiddenapiClassData"]
           THEN {Panic}
         ELSE {[dex EXCEPT !.hiddenapi_data = Some(Small(item.off))]}
  ELSE IF item.type_ \in MapItemTypes THEN {dex}
  ELSE {dex, Panic}

RECURSIVE MapItemsWalk(_, _, _, _, _)
\* the loop over items[i..count] in init_sections_from_maplist
MapItemsWalk(base, dex, map_list_off, i, count) ==
  IF i = count \/ dex = Panic THEN {dex}
  ELSE UNION { MapItemsWalk(base, d, map_list_off, i + 1, count) :
               d \in MapItemStep(base, dex, MapItemAt(base, map_list_off, i)) }

\* DexFile::init_sections_from_maplist: the set of resulting DexFiles
init_sections_from_maplist(base, dex) ==
  LET header == dex.header
      size == Big(Len(base.bytes))
      map_list_off == BigAdd(header.map_off, Big(4))
  IN  IF ~maplist_available(base, header) THEN {dex}
      ELSE IF BigLe(size, map_list_off) THEN {dex}
      ELSE LET count == non_null_data_ptr(base, header.map_off, "u32")
           IN  IF count.kind = "Panic" THEN {Panic}
               ELSE IF count.kind = "Err" THEN {dex}
               ELSE LET n == U32At(base.bytes, count.val)
                        map_limit == (Len(base.bytes) - 4 - Small(header.map_off))
                                       \div TypeSize["MapItem"]
                        items == non_null_array_data_ptr(base, map_list_off, n, "MapItem")
                    IN  IF BigLt(Big(map_limit), n) THEN {dex}
                        ELSE IF items.kind = "Panic" THEN {Panic}
                        ELSE IF items.kind = "Err" THEN {dex}
                        ELSE MapItemsWalk(base, dex, items.val.off, 0, items.val.len)

\* DexFile::from_raw_parts: the set of results for a container
from_raw_parts(base) ==
  IF ~header_available(base) THEN {Err("TruncatedFile")}
  ELSE LET header == Header(base.bytes)
           dex == [kind |-> "Ok", header |-> header,
                   string_ids |-> get_section(base, header.string_ids_off,
                                              header.string_ids_size, "StringId"),
                   type_ids |-> get_section(base, header.type_ids_off,
                                            header.type_ids_size, "TypeId"),
                   field_ids |-> get_section(base, header.field_ids_off,
                                             header.field_ids_size, "FieldId"),
                   proto_ids |-> get_section(base, header.proto_ids_off,
                                             header.proto_ids_size, "ProtoId"),
                   method_ids |-> get_section(base, header.method_ids_off,
                                              header.method_ids_size, "MethodId"),
                   class_defs |-> get_section(base, header.class_defs_off,
                                              header.class_defs_size, "ClassDef"),
                   method_handles |-> EmptySlice,
                   call_site_ids |-> EmptySlice,
                   hiddenapi_data |-> None]
       IN  init_sections_from_maplist(base, dex)

\* Header::is_magic_valid / Header::is_version_valid
is_magic_valid(header) == Slice(header.magic, 0, 4) = DEX_MAGIC

is_version_valid(header) == Slice(header.magic, 4, 8) \in DEX_MAGIC_VERSIONS

\* DexFile::expected_header_size
expected_header_size(header) ==
  LET version == get_version(header)
  IN  IF version /= 0 THEN (IF version < 41 THEN HeaderSize ELSE HeaderV41Size)
      ELSE 0

\* DexFile::init: the open-time checks
init(base, dex) ==
  IF Len(base.bytes) < TypeSize["Header"] THEN Err("DexFileError")
  ELSE IF ~is_magic_valid(dex.header) \/ ~is_version_valid(dex.header)
    THEN Err("DexFileError")
  ELSE IF BigLt(Big(expected_header_size(dex.header)), dex.header.header_size)
    THEN Err("DexFileError")
  ELSE IF BigLt(Big(Len(base.bytes)), dex.header.file_size)
    THEN Err("DexFileError")
  ELSE Ok("unit")

(***************************************************************************)
(* The verifier.                                                           *)
(***************************************************************************)
VerifyPreset == {"None", "All", "ChecksumOnly"}

AdlerMod == 65521

RECURSIVE AdlerRun(_, _, _, _)
\* the Adler-32 sums (a in lo, b in hi) after the bytes data[from..to],
\* starting from the sums s0
AdlerRun(data, from, to, s0) ==
  IF to <= from THEN s0
  ELSE LET s == AdlerRun(data, from, to - 1, s0)
           a == (s.lo + At(data, to - 1)) % AdlerMod
       IN  [hi |-> (s.hi + a) % AdlerMod, lo |-> a]

RECURSIVE AdlerBlocks(_, _, _)
\* the Adler-32 sums after data[from..to], taken in blocks of 16 bytes
AdlerBlocks(data, from, to) ==
  IF to - from <= 16 THEN AdlerRun(data, from, to, [hi |-> 0, lo |-> 1])
  ELSE LET s == AdlerBlocks(data, from, to - 16)
       IN  IF s.lo >= 0 THEN AdlerRun(data, to - 16, to, s) ELSE s

\* adler32::adler32 over data[from..]
Adler32From(data, from) == AdlerBlocks(data, from, Len(data))

\* DexFile::calculate_checksum: Adler-32 of mmap[12..size], size the length
\* of the container
calculate_checksum(base) == Adler32From(base.bytes, 12)

\* check_valid_offset_and_size; checked says whether the build traps
\* arithmetic overflow
check_valid_offset_and_size(base, offset, size, checked) ==
  LET file_size == Big(Len(base.bytes))
      header_offset == Big(TypeSize["Header"])
  IN  IF size = Big(0)
        THEN (IF offset /= Big(0) THEN Err("BadOffsetNoSize") ELSE Ok("unit"))
      ELSE IF BigLt(offset, header_offset) THEN Err("BadOffsetInHeader")
      ELSE IF BigLt(file_size, offset) THEN Err("BadOffsetTooLarge")
      ELSE IF BigLt(BigSub(file_size, offset), size)
        THEN (IF checked /\ ~FitsU32(BigAdd(offset, size)) THEN Panic
              ELSE Err("BadSection"))
      ELSE Ok("unit")

\* the (offset, size) pairs check_header passes to
\* check_valid_offset_and_size, in order
HeaderPairs(header) ==
  << [off |-> header.link_off, size |-> header.link_size],
     [off |-> header.map_off, size |-> Big(TypeSize["u32"])],
     [off |-> header.string_ids_off, size |-> header.string_ids_size],
     [off |-> header.type_ids_off, size |-> header.type_ids_size],
     [off |-> header.proto_ids_off, size |-> header.proto_ids_size],
     [off |-> header.field_ids_off, size |-> header.field_ids_size],
     [off |-> header.method_ids_off, size |-> header.method_ids_size],
     [off |-> header.class_defs_off, size |-> header.class_defs_size],
     [off |-> header.data_off, size |-> header.data_size] >>

RECURSIVE CheckPairsFrom(_, _, _, _)
\* the chain of check_valid_offset_and_size(..)? calls of check_header
CheckPairsFrom(base, pairs, i, checked) ==
  IF i > Len(pairs) THEN Ok("unit")
  ELSE LET r == check_valid_offset_and_size(base, pairs[i].off, pairs[i].size, checked)
       IN  IF r.kind /= "Ok" THEN r
           ELSE CheckPairsFrom(base, pairs, i + 1, checked)

\* check_header
check_header(base, dex, preset, checked) ==
  LET size == Len(base.bytes)
      header == dex.header
      version == get_version(header)
      file_size == header.file_size
      header_size == IF version >= 41 THEN HeaderV41Size ELSE HeaderSize
  IN  IF size < TypeSize["Header"] THEN Err("TruncatedFile")
      ELSE IF ~is_magic_valid(header) THEN Err("BadFileMagic")
      ELSE IF ~is_version_valid(header) THEN Err("UnknownDexVersion")
      ELSE IF BigLt(file_size, Big(header_size)) THEN Err("FileSizeAtLeast")
      ELSE IF BigLt(Big(size), file_size) THEN Err("FileSizeAtMost")
      ELSE IF header.header_size /= Big(header_size) THEN Err("BadHeaderSize")
      ELSE IF header.endian_tag /= DEX_ENDIAN_CONSTANT THEN Err("UnexpectedEndianess")
      ELSE IF preset \in {"All", "ChecksumOnly"}
              /\ calculate_checksum(base) /= header.checksum
        THEN Err("BadChecksum")
      ELSE CheckPairsFrom(base, HeaderPairs(header), 1, checked)

\* DexFile::verify
verify(base, dex, preset, checked) == check_header(base, dex, preset, checked)

\* DexFile::open applied to one outcome d of from_raw_parts
OpenWith(base, d, preset, checked) ==
  IF d.kind /= "Ok" THEN d
  ELSE LET i == init(base, d)
       IN  IF i.kind /= "Ok" THEN i
           ELSE IF preset = "None" THEN d
           ELSE LET v == verify(base, d, preset, checked)
                IN  IF v.kind /= "Ok" THEN v ELSE d

\* DexFile::open: the set of results
open(base, preset, checked) ==
  { OpenWith(base, d, preset, checked) : d \in from_raw_parts(base) }

(***************************************************************************)
(* The id tables.                                                          *)
(***************************************************************************)
Sections ==
  {"string_ids", "type_ids", "field_ids", "proto_ids", "method_ids", "class_defs"}

\* DexFile::num_string_ids .. num_class_defs: the count of the header
num_ids(dex, X) ==
  CASE X = "string_ids" -> dex.header.string_ids_size
    [] X = "type_ids" -> dex.header.type_ids_size
    [] X = "field_ids" -> dex.header.field_ids_size
    [] X = "proto_ids" -> dex.header.proto_ids_size
    [] X = "method_ids" -> dex.header.method_ids_size
    [] X = "class_defs" -> dex.header.class_defs_size

\* DexFile::num_method_handles, DexFile::num_call_site_ids
num_items(dex, X) == dex[X].len

\* DexFile::get_string_id .. get_class_def (fn_id!): the offset of the entry
get_id(dex, X, idx) ==
  IF idx >= dex[X].len THEN DexIndexError
  ELSE Ok(dex[X].off + idx * TypeSize[CASE X = "string_ids" -> "StringId"
                                        [] X = "type_ids" -> "TypeId"
                                        [] X = "field_ids" -> "FieldId"
                                        [] X = "proto_ids" -> "ProtoId"
                                        [] X = "method_ids" -> "MethodId"
                                        [] X = "class_defs" -> "ClassDef"])

(***************************************************************************)
(* State.  Every specification below drives one part of the library; the   *)
(* variables of the other parts stay at their idle values.                 *)
(***************************************************************************)
VARIABLES
  container,        \* the bytes handed to DexFile and their base address mod 8
  overflow_checks,  \* whether the build traps integer overflow
  dex,              \* how the DexFile was obtained and the result
  verified,         \* the result of a separate DexFile::verify call
  probe,            \* the last accessor call and its result
  instructions,     \* DexInstructionIterator: the code-unit stream
  pc,               \* DexInstructionIterator: the position, a wide integer
  item,             \* the last item the iterator returned, pretty-printed
  operand,          \* the last operand accessor applied and its result
  varint_pads,      \* whether the varint decoder reads a cut-off varint as
                    \* if zero bytes followed it
  window,           \* the byte window handed to a decoder
  handlers,         \* EncodedCatchHandlerIterator, or the failure of new
  handler,          \* the last item the catch handler iterator returned
  decoded,          \* the result of a decoder applied to the window
  accessor,         \* ClassAccessor, or the failure of from_raw
  iter,             \* DataIterator over the fields or the methods
  members,          \* the members yielded or visited so far
  yielded,          \* the catch handlers yielded so far
  utf16,            \* the UTF-16 code units handed to the MUTF-8 encoder
  debug_info        \* decode_position_info: the position entry, the offset
                    \* in the stream and the entries handed to the visitor

openVars == << container, overflow_checks, dex, verified, probe >>

insnVars == << instructions, pc, item, operand >>

decVars ==
  << varint_pads, window, handlers, handler, decoded, accessor, iter, members,
     yielded, utf16, debug_info >>

vars == << openVars, insnVars, decVars >>

Idle == [op |-> "none"]

\* the idle values of the variables a specification does not use
IdleFile ==
  /\ container = [bytes |-> << >>, addr |-> 0]
  /\ dex = [how |-> "none"]
  /\ verified = Idle
  /\ probe = Idle

IdleOpen == IdleFile /\ overflow_checks = FALSE

IdleInsn ==
  instructions = << >> /\ pc = Big(0) /\ item = Idle /\ operand = Idle

IdleDec ==
  /\ varint_pads = FALSE
  /\ window = << >>
  /\ handlers = Idle
  /\ handler = Idle
  /\ decoded = Idle
  /\ accessor = Idle
  /\ iter = Idle
  /\ members = << >>
  /\ yielded = << >>
  /\ debug_info = Idle
  /\ utf16 = << >>

\* the variables outside each part
NotOpen == << insnVars, decVars >>

NotInsn == << openVars, decVars >>

NotDec == << openVars, insnVars >>

(***************************************************************************)
(* Containers: a header written field by field, followed by zero bytes.    *)
(***************************************************************************)
PairNames ==
  {"link", "string_ids", "type_ids", "proto_ids", "field_ids", "method_ids",
   "class_defs", "data"}

NoPair == [size |-> Big(0), off |-> Big(0)]

PairBytes(pr) == LE32(pr.size) \o LE32(pr.off)

\* the bytes of a header with the given fields and a zero checksum
HeaderBytes(f) ==
  f.magic \o f.version \o Zeros(4) \o Zeros(20)
    \o LE32(f.file_size) \o LE32(f.header_size) \o LE32(f.endian_tag)
    \o PairBytes(f.pairs["link"]) \o LE32(f.map_off)
    \o PairBytes(f.pairs["string_ids"]) \o PairBytes(f.pairs["type_ids"])
    \o PairBytes(f.pairs["proto_ids"]) \o PairBytes(f.pairs["field_ids"])
    \o PairBytes(f.pairs["method_ids"]) \o PairBytes(f.pairs["class_defs"])
    \o PairBytes(f.pairs["data"])

\* bytes with the checksum field (offset 8) set to ck
WithChecksum(bytes, ck) ==
  Slice(bytes, 0, 8) \o LE32(ck) \o SliceFrom(bytes, 12)

\* Adler-32 of bytes[12..upto]
ChecksumUpTo(bytes, upto) ==
  Adler32From(Slice(bytes, 0, IF upto < 12 THEN 12 ELSE upto), 12)

\* the container of length n for header fields f; cksum says what the
\* checksum field holds: the sum up to the declared file_size ("declared"),
\* up to the end of the container ("container"), or zero
MkBytes(f, n, cksum) ==
  LET raw == HeaderBytes(f) \o Zeros(n - HeaderSize)
      declared == IF BigLe(f.file_size, Big(n)) THEN Small(f.file_size) ELSE n
  IN  IF cksum = "zero" THEN raw
      ELSE IF cksum = "declared" THEN WithChecksum(raw, ChecksumUpTo(raw, declared))
      ELSE WithChecksum(raw, ChecksumUpTo(raw, n))

ContainerLens == {HeaderV41Size, HeaderSize + MaxExtra}

Version035 == << 48, 51, 53, 0 >>

Version041 == << 48, 52, 49, 0 >>

Version036 == << 48, 51, 54, 0 >>

GoodHeader(n) ==
  [magic |-> DEX_MAGIC, version |-> Version035, file_size |-> Big(n),
   header_size |-> Big(HeaderSize), endian_tag |-> DEX_ENDIAN_CONSTANT,
   map_off |-> Big(n - 8), pairs |-> [p \in PairNames |-> NoPair]]

\* headers that differ from a good one in the fixed fields
FaultyHeaders(n) ==
  { [GoodHeader(n) EXCEPT !.magic = m, !.version = v, !.file_size = fs,
                          !.header_size = hs, !.endian_tag = e]
      : m \in {DEX_MAGIC, << 100, 101, 121, 10 >>},
        v \in {Version035, Version041, Version036},
        fs \in {Big(n), Big(n - 4), Big(n + 1), Big(HeaderSize - 12)},
        hs \in {Big(HeaderSize), Big(HeaderV41Size), Big(0)},
        e \in {DEX_ENDIAN_CONSTANT, Big(0)} }

PairSizes == {Big(0), Big(1), Big(2), Big(4), U32_MAX}

PairOffs(n) ==
  {Big(0), Big(HeaderSize - 4), Big(HeaderSize), Big(HeaderSize + 2),
   Big(n - 4), Big(n - 1), Big(n), Big(n + 4)}

\* good headers with one (size, offset) pair varied
PairHeaders(n) ==
  { [GoodHeader(n) EXCEPT !.pairs[p] = [size |-> sz, off |-> off]]
      : p \in PairNames, sz \in PairSizes, off \in PairOffs(n) }

\* good headers with the map offset varied
MapHeaders(n) ==
  { [GoodHeader(n) EXCEPT !.map_off = mo]
      : mo \in {Big(0), Big(HeaderSize - 4), Big(n - 4), Big(n - 2), Big(n), Big(n + 4)} }

MaxMapSize == 2

\* a MapItem: type_, unused, size, off
MapItemBytes(type_, size, off) ==
  << type_ % 256, type_ \div 256, 0, 0 >> \o LE32(Big(size)) \o LE32(Big(off))

\* containers with a map list: room for the method handles, room for the
\* call site ids, the map list (the header item, then an entry for the
\* method handles and one for the call site ids unless their size is 0),
\* and four more bytes
MapContainers ==
  { LET handles_off == HeaderSize
        sites_off == handles_off + MaxMapSize * TypeSize["MethodHandleItem"]
        map_off == sites_off + MaxMapSize * TypeSize["CallSiteIdItem"]
        items == MapItemBytes(0, 1, 0)
                   \o (IF handles = 0 THEN << >>
                       ELSE MapItemBytes(8, handles, handles_off))
                   \o (IF sites = 0 THEN << >>
                       ELSE MapItemBytes(7, sites, sites_off))
        n == map_off + 4 + Len(items) + 4
        raw == HeaderBytes([GoodHeader(n) EXCEPT !.map_off = Big(map_off)])
                 \o Zeros(map_off - HeaderSize)
                 \o LE32(Big(Len(items) \div TypeSize["MapItem"]))
                 \o items \o Zeros(4)
    IN  [bytes |-> WithChecksum(raw, ChecksumUpTo(raw, n)), addr |-> 0]
      : handles \in 0..MaxMapSize, sites \in 0..MaxMapSize }

\* containers: truncated ones, a misaligned one, headers followed by
\* zeros, and ones with a map list
Containers ==
  MapContainers \cup
  { [bytes |-> Zeros(HeaderSize - 1), addr |-> 0],
    [bytes |-> Zeros(HeaderSize), addr |-> 0],
    [bytes |-> MkBytes(GoodHeader(HeaderV41Size), HeaderV41Size, "container"),
     addr |-> 2] }
  \cup { [bytes |-> MkBytes(f, n, ck), addr |-> 0]
           : <<f, n, ck>> \in
               UNION { FaultyHeaders(m) \X {m} \X {"declared", "container", "zero"}
                       : m \in ContainerLens } }
  \cup { [bytes |-> MkBytes(f, n, "container"), addr |-> 0]
           : <<f, n>> \in UNION { (PairHeaders(m) \cup MapHeaders(m)) \X {m}
                                  : m \in ContainerLens } }

(***************************************************************************)
(* Opening a container and reading its id tables.                          *)
(***************************************************************************)
InitOpen ==
  /\ container \in Containers
  /\ overflow_checks \in BOOLEAN
  /\ dex = [how |-> "none"]
  /\ verified = Idle
  /\ probe = Idle
  /\ IdleInsn
  /\ IdleDec

\* DexFile::open(container, preset)
Open(preset) ==
  /\ dex.how = "none"
  /\ \E r \in open(container, preset, overflow_checks) :
       dex' = [how |-> preset, res |-> r]
  /\ UNCHANGED << container, overflow_checks, verified, probe >>
  /\ UNCHANGED NotOpen

\* DexFile::from_raw_parts(container)
FromRawParts ==
  /\ dex.how = "none"
  /\ \E r \in from_raw_parts(container) : dex' = [how |-> "raw", res |-> r]
  /\ UNCHANGED << container, overflow_checks, verified, probe >>
  /\ UNCHANGED NotOpen

Opened == dex.how /= "none" /\ dex.res.kind = "Ok"

\* DexFile::verify(&dex, preset) on a DexFile built by from_raw_parts
Verify(preset) ==
  /\ Opened
  /\ dex.how = "raw"
  /\ verified = Idle
  /\ probe = Idle
  /\ verified' = [op |-> "verify", preset |-> preset,
                  res |-> verify(container, dex.res, preset, overflow_checks)]
  /\ UNCHANGED << container, overflow_checks, dex, probe >>
  /\ UNCHANGED NotOpen

\* dex.get_X(idx) for one of the six id tables
GetId(X, idx) ==
  /\ Opened
  /\ probe = Idle
  /\ verified = Idle
  /\ BigLe(Big(idx), num_ids(dex.res, X))
  /\ probe' = [op |-> X, arg |-> idx, res |-> get_id(dex.res, X, idx)]
  /\ UNCHANGED << container, overflow_checks, dex, verified >>
  /\ UNCHANGED NotOpen

\* the type of the entries of an id table
IdType(X) ==
  CASE X = "string_ids" -> "StringId"
    [] X = "type_ids" -> "TypeId"
    [] X = "field_ids" -> "FieldId"
    [] X = "proto_ids" -> "ProtoId"
    [] X = "method_ids" -> "MethodId"
    [] X = "class_defs" -> "ClassDef"

UnknownObjectRef(offset, start, end) ==
  Err([name |-> "UnknownObjectRef", offset |-> offset, start |-> start,
       end |-> end])

\* DexFile::offset_of for the table X and a reference at the address
\* target; addresses are relative to the start of the container
offset_of(file_size, d, X, target) ==
  LET start == d[X].off
      end == d[X].off + file_size
  IN  IF target < start \/ target > end
        THEN UnknownObjectRef(target, start, end)
      ELSE Ok((target - start) \div TypeSize[IdType(X)])

\* the addresses a reference to an entry type of X is taken from: the
\* entries get_X returns, and the slots before and after the table
References(d, X) ==
  { [by |-> "get", idx |-> i, at |-> get_id(d, X, i).val]
      : i \in { j \in 0..MaxProbe : get_id(d, X, j).kind = "Ok" } }
  \cup { [by |-> "other", idx |-> k,
          at |-> d[X].off + (d[X].len + k) * TypeSize[IdType(X)]]
           : k \in (0..MaxProbe) \cup {-1 - d[X].len} }

\* dex.X_idx(item) for one of the six id tables
IdIdx(X) ==
  /\ Opened
  /\ probe = Idle
  /\ verified = Idle
  /\ \E ref \in References(dex.res, X) :
       probe' = [op |-> "idx", table |-> X, arg |-> ref,
                 res |-> offset_of(Len(container.bytes), dex.res, X, ref.at)]
  /\ UNCHANGED << container, overflow_checks, dex, verified >>
  /\ UNCHANGED NotOpen

NextOpen ==
  \/ \E preset \in VerifyPreset : Open(preset)
  \/ FromRawParts
  \/ \E preset \in VerifyPreset : Verify(preset)
  \/ \E X \in Sections, idx \in 0..MaxProbe : GetId(X, idx)
  \/ \E X \in Sections : IdIdx(X)

SpecOpen == InitOpen /\ [][NextOpen]_vars

(***************************************************************************)
(* Properties of opening and verifying.                                    *)
(***************************************************************************)
\* C1: if open(B, Verify=None) succeeds then, for every id table X and every
\* i < num_X(), get_X(i) returns Ok.
C1_IdsBelowCountAreReadable ==
  (dex.how = "None" /\ probe.op \in Sections
     /\ BigLt(Big(probe.arg), num_ids(dex.res, probe.op)))
    => probe.res.kind = "Ok"

\* the size in bytes of one entry of each (size, offset) pair of the header
EntrySize ==
  [link |-> 1, string_ids |-> 4, type_ids |-> 4, proto_ids |-> 12,
   field_ids |-> 8, method_ids |-> 8, class_defs |-> 32, data |-> 1]

PairOf(header, p) ==
  CASE p = "link" -> [size |-> header.link_size, off |-> header.link_off]
    [] p = "string_ids" -> [size |-> header.string_ids_size, off |-> header.string_ids_off]
    [] p = "type_ids" -> [size |-> header.type_ids_size, off |-> header.type_ids_off]
    [] p = "proto_ids" -> [size |-> header.proto_ids_size, off |-> header.proto_ids_off]
    [] p = "field_ids" -> [size |-> header.field_ids_size, off |-> header.field_ids_off]
    [] p = "method_ids" -> [size |-> header.method_ids_size, off |-> header.method_ids_off]
    [] p = "class_defs" -> [size |-> header.class_defs_size, off |-> header.class_defs_off]
    [] p = "data" -> [size |-> header.data_size, off |-> header.data_off]

\* the rule for one (size, offset) pair: size = 0 exactly when offset = 0,
\* and a non-empty table lies between the header and the declared end
PairRule(header, p) ==
  LET pr == PairOf(header, p)
  IN  /\ (pr.size = Big(0)) <=> (pr.off = Big(0))
      /\ pr.size /= Big(0) =>
           /\ BigLe(header.header_size, pr.off)
           /\ BigLe(BigAdd(pr.off, BigMul(pr.size, EntrySize[p])), header.file_size)

\* the map offset lies between the header and the declared end
MapRule(header) ==
  /\ BigLe(header.header_size, header.map_off)
  /\ BigLe(BigAdd(header.map_off, Big(4)), header.file_size)

\* the header invariants: magic, known version, file_size within the
\* container, header_size matching the version, endian_tag, the rule for
\* every pair, and the Adler-32 checksum over [12, file_size)
HeaderInvariants(base) ==
  /\ Len(base.bytes) >= HeaderSize
  /\ LET header == Header(base.bytes)
     IN  /\ Slice(header.magic, 0, 4) = DEX_MAGIC
         /\ Slice(header.magic, 4, 8) \in DEX_MAGIC_VERSIONS
         /\ BigLe(header.file_size, Big(Len(base.bytes)))
         /\ header.header_size =
              Big(IF get_version(header) >= 41 THEN HeaderV41Size ELSE HeaderSize)
         /\ BigLe(header.header_size, header.file_size)
         /\ header.endian_tag = DEX_ENDIAN_CONSTANT
         /\ \A p \in PairNames : PairRule(header, p)
         /\ MapRule(header)
         /\ ChecksumUpTo(base.bytes, Small(header.file_size)) = header.checksum

\* C2: with Verify=All, open(B) fails if and only if B violates a header
\* invariant or its Adler-32 checksum over [12, file_size) differs from the
\* checksum field.
C2_OpenAllFailsIffHeaderInvalid ==
  (dex.how = "All" /\ container.addr % 4 = 0)
    => ((dex.res.kind /= "Ok") <=> ~HeaderInvariants(container))

\* C3: whenever verify(dex, All) returns Ok, every (size, offset) pair of the
\* header has size = 0 exactly when offset = 0 and, if non-zero,
\* offset >= header_size and offset + size * entry_size <= file_size.
C3_VerifiedPairsLieInFile ==
  (verified.op = "verify" /\ verified.preset = "All" /\ verified.res.kind = "Ok")
    => \A p \in PairNames : PairRule(dex.res.header, p)

\* C5: for every byte sequence, opening it (from_raw_parts followed by the
\* open-time checks) returns a DexFile or a typed error and never panics.
C5_OpenNeverPanics ==
  /\ dex.how /= "none" => dex.res.kind \in {"Ok", "Err"}
  /\ verified.op = "verify" => verified.res.kind \in {"Ok", "Err"}

(***************************************************************************)
(* The offset-based accessors of an opened DexFile.                        *)
(***************************************************************************)
\* DexFile::get_insns_raw(code_off, size_in_code_units)
get_insns_raw(base, code_off, size_in_code_units) ==
  IF code_off >= Len(base.bytes) THEN DexIndexError
  ELSE non_null_array_data_ptr(base, Big(code_off), size_in_code_units, "u16")

\* CodeItemAccessor::from_code_item(dex, code_item, code_off); code_item is
\* the offset of the CodeItem, whose insns_size is its last field
from_code_item(base, code_item, code_off) ==
  LET insns == IF code_off = 0 THEN Ok(EmptySlice)
               ELSE get_insns_raw(base, code_off, U32At(base.bytes, code_item + 12))
  IN  IF insns.kind /= "Ok" THEN insns
      ELSE Ok([code_off |-> code_off, code_item |-> code_item, insns |-> insns.val])

\* DexFile::get_code_item_accessor(offset)
get_code_item_accessor(base, offset) ==
  IF offset >= Len(base.bytes) THEN DexIndexError
  ELSE LET code_item == non_null_data_ptr(base, Big(offset), "CodeItem")
       IN  IF code_item.kind /= "Ok" THEN code_item
           ELSE from_code_item(base, code_item.val, offset + TypeSize["CodeItem"])

U16At(s, off) == At(s, off) + 256 * At(s, off + 1)

\* CodeItemAccessor::tries_size: the fourth u16 of the CodeItem
tries_size(base, self) == U16At(base.bytes, self.code_item + 6)

\* CodeItemAccessor::get_tries_off: relative to the first code unit
get_tries_off(base, self) ==
  IF tries_size(base, self) = 0 THEN None
  ELSE LET offset == self.insns.len * 2
           padding == IF self.insns.len % 2 = 1 THEN 2 ELSE 0
       IN  Some(offset + padding)

\* CodeItemAccessor::get_tries_abs_off; insns_off() is the field code_off
get_tries_abs_off(base, self) ==
  LET tries_off == get_tries_off(base, self)
  IN  IF ~tries_off.some THEN None ELSE Some(tries_off.val + self.code_off)

\* CodeItemAccessor::get_catch_handler_data_off
get_catch_handler_data_off(base, self) ==
  LET tries_off == get_tries_off(base, self)
  IN  IF tries_off.some
        THEN Some(tries_off.val + tries_size(base, self) * TypeSize["TryItem"])
        ELSE None

\* CodeItemAccessor::get_catch_handler_data_abs_off
get_catch_handler_data_abs_off(base, self) ==
  LET data_off == get_catch_handler_data_off(base, self)
  IN  IF ~data_off.some THEN None ELSE Some(data_off.val + self.code_off)

\* DexFile::get_try_items_raw(tries_off, tries_size)
get_try_items_raw(base, tries_off, size) ==
  IF tries_off >= Len(base.bytes) THEN DexIndexError
  ELSE non_null_array_data_ptr(base, Big(tries_off), Big(size), "TryItem")

\* DexFile::get_try_item(ca); ca.code_off() is the accessor's code_off, the
\* offset of its first code unit
get_try_item(base, ca) ==
  LET offset == ca.code_off + TypeSize["CodeItem"] + ca.insns.len
      aligned == ((offset + 3) \div 4) * 4
  IN  IF aligned >= Len(base.bytes) THEN DexIndexError
      ELSE get_try_items_raw(base, aligned, tries_size(base, ca))

\* DexFile::get_type_list(offset)
get_type_list(base, offset) ==
  IF offset = 0 THEN Ok(None)
  ELSE IF offset >= Len(base.bytes) THEN DexIndexError
  ELSE IF from_bytes(base, offset, "u32") /= "Ok" THEN Panic
  ELSE array_data_ptr(base, Big(offset + TypeSize["u32"]),
                      U32At(base.bytes, offset), "TypeItem")

\* DexFile::get_annotation_set(off)
get_annotation_set(base, off) ==
  IF off >= Len(base.bytes) THEN DexIndexError
  ELSE LET size == data_ptr(base, Big(off), "u32")
       IN  IF size.kind /= "Ok" THEN size
           ELSE IF ~size.val.some THEN Ok(EmptySlice)
           ELSE IF off + TypeSize["u32"] >= Len(base.bytes) THEN DexIndexError
           ELSE non_null_array_data_ptr(base, Big(off + TypeSize["u32"]),
                                        U32At(base.bytes, size.val.val), "u32")

\* containers with a good header whose remaining bytes all hold one value
FilledContainers ==
  { [bytes |-> HeaderBytes(GoodHeader(n)) \o [i \in 1..(n - HeaderSize) |-> fill],
     addr |-> 0]
      : n \in ContainerLens, fill \in {0, 1, 255} }

\* a CodeItem with the given numbers of code units and try items, its code
\* units, the padding to a multiple of four, its try items and a handler
\* list of one byte
CodeItemBytes(insns_size, tries) ==
  << 0, 0, 0, 0, 0, 0, tries, 0, 0, 0, 0, 0 >> \o LE32(Big(insns_size))
    \o Zeros(2 * insns_size + (IF insns_size % 2 = 1 THEN 2 ELSE 0))
    \o Zeros(8 * tries) \o << 0 >>

MaxInsns == 3

MaxTries == 2

\* containers without a map list that hold one code item, at the end of the
\* header or four bytes later, followed by nothing or by sixteen bytes
CodeContainers ==
  { LET body == Zeros(lead) \o CodeItemBytes(insns_size, tries) \o Zeros(trail)
        n == HeaderSize + Len(body)
    IN  [bytes |-> HeaderBytes([GoodHeader(n) EXCEPT !.map_off = Big(0)]) \o body,
         addr |-> 0]
      : insns_size \in 0..MaxInsns, tries \in 0..MaxTries,
        lead \in {0, 4}, trail \in {0, 16} }

InitAccess ==
  /\ container \in FilledContainers \cup CodeContainers
  /\ overflow_checks \in BOOLEAN
  /\ dex \in { [how |-> "raw", res |-> r] : r \in from_raw_parts(container) }
  /\ verified = Idle
  /\ probe = Idle
  /\ IdleInsn
  /\ IdleDec

\* the offsets handed to the accessors: every offset of the container and
\* the first ones past its end
ProbeOffsets == 0..(Len(container.bytes) + MaxProbe)

\* dex.get_code_item_accessor(offset)
GetCodeItemAccessor(offset) ==
  /\ Opened
  /\ probe = Idle
  /\ probe' = [op |-> "get_code_item_accessor", arg |-> offset,
               res |-> get_code_item_accessor(container, offset)]
  /\ UNCHANGED << container, overflow_checks, dex, verified >>
  /\ UNCHANGED NotOpen

\* dex.get_type_list(offset)
GetTypeList(offset) ==
  /\ Opened
  /\ probe = Idle
  /\ probe' = [op |-> "get_type_list", arg |-> offset,
               res |-> get_type_list(container, offset)]
  /\ UNCHANGED << container, overflow_checks, dex, verified >>
  /\ UNCHANGED NotOpen

\* dex.get_annotation_set(offset)
GetAnnotationSet(offset) ==
  /\ Opened
  /\ probe = Idle
  /\ probe' = [op |-> "get_annotation_set", arg |-> offset,
               res |-> get_annotation_set(container, offset)]
  /\ UNCHANGED << container, overflow_checks, dex, verified >>
  /\ UNCHANGED NotOpen

\* dex.get_code_item_accessor(offset) and then, on the accessor, the
\* offsets of its try table and handler list and dex.get_try_item(&ca)
GetTryItem(offset) ==
  /\ Opened
  /\ probe = Idle
  /\ offset /= 0
  /\ LET ca == get_code_item_accessor(container, offset)
     IN  /\ ca.kind = "Ok"
         /\ probe' = [op |-> "get_try_item", arg |-> offset, ca |-> ca.val,
                      tries_size |-> tries_size(container, ca.val),
                      tries_abs_off |-> get_tries_abs_off(container, ca.val),
                      catch_handler_data_abs_off |->
                        get_catch_handler_data_abs_off(container, ca.val),
                      res |-> get_try_item(container, ca.val)]
  /\ UNCHANGED << container, overflow_checks, dex, verified >>
  /\ UNCHANGED NotOpen

NextAccess ==
  \/ \E offset \in ProbeOffsets : GetCodeItemAccessor(offset)
  \/ \E offset \in ProbeOffsets : GetTryItem(offset)
  \/ \E offset \in ProbeOffsets : GetTypeList(offset)
  \/ \E offset \in ProbeOffsets : GetAnnotationSet(offset)

SpecAccess == InitAccess /\ [][NextAccess]_vars

\* C6: on an opened DexFile, for every non-zero offset (of any alignment,
\* however close to the end of the file) get_code_item_accessor,
\* get_type_list and get_annotation_set return a value or a typed error and
\* never panic.
C6_OffsetAccessorsNeverPanic ==
  (probe.op \in {"get_code_item_accessor", "get_type_list", "get_annotation_set"}
     /\ probe.arg /= 0)
    => probe.res.kind \in {"Ok", "Err"}

(***************************************************************************)
(* Instructions.  A code-unit stream is a sequence of 0..65535; an         *)
(* Instruction is the stream from its first code unit on.                  *)
(***************************************************************************)
\* the name column of INSN_DESCRIPTORS, by opcode
OpcodeNames ==
  << "nop", "move", "move/from16", "move/16",
     "move-wide", "move-wide/from16", "move-wide/16", "move-object",
     "move-object/from16", "move-object/16", "move-result", "move-result-wide",
     "move-result-object", "move-exception", "return-void", "return",
     "return-wide", "return-object", "const/4", "const/16",
     "const", "const/high16", "const-wide/16", "const-wide/32",
     "const-wide", "const-wide/high16", "const-string", "const-string/jumbo",
     "const-class", "monitor-enter", "monitor-exit", "check-cast",
     "instance-of", "array-length", "new-instance", "new-array",
     "filled-new-array", "filled-new-array/range", "fill-array-data", "throw",
     "goto", "goto/16", "goto/32", "packed-switch",
     "sparse-switch", "cmpl-float", "cmpg-float", "cmpl-double",
     "cmpg-double", "cmp-long", "if-eq", "if-ne",
     "if-lt", "if-ge", "if-gt", "if-le",
     "if-eqz", "if-nez", "if-ltz", "if-gez",
     "if-gtz", "if-lez", "unused-3e", "unused-3f",
     "unused-40", "unused-41", "unused-42", "unused-43",
     "aget", "aget-wide", "aget-object", "aget-boolean",
     "aget-byte", "aget-char", "aget-short", "aput",
     "aput-wide", "aput-object", "aput-boolean", "aput-byte",
     "aput-char", "aput-short", "iget", "iget-wide",
     "iget-object", "iget-boolean", "iget-byte", "iget-char",
     "iget-short", "iput", "iput-wide", "iput-object",
     "iput-boolean", "iput-byte", "iput-char", "iput-short",
     "sget", "sget-wide", "sget-object", "sget-boolean",
     "sget-byte", "sget-char", "sget-short", "sput",
     "sput-wide", "sput-object", "sput-boolean", "sput-byte",
     "sput-char", "sput-short", "invoke-virtual", "invoke-super",
     "invoke-direct", "invoke-static", "invoke-interface", "unused-73",
     "invoke-virtual/range", "invoke-super/range", "invoke-direct/range", "invoke-static/range",
     "invoke-interface/range", "unused-79", "unused-7a", "neg-int",
     "not-int", "neg-long", "not-long", "neg-float",
     "neg-double", "int-to-long", "int-to-float", "int-to-double",
     "long-to-int", "long-to-float", "long-to-double", "float-to-int",
     "float-to-long", "float-to-double", "double-to-int", "double-to-long",
     "double-to-float", "int-to-byte", "int-to-char", "int-to-short",
     "add-int", "sub-int", "mul-int", "div-int",
     "rem-int", "and-int", "or-int", "xor-int",
     "shl-int", "shr-int", "ushr-int", "add-long",
     "sub-long", "mul-long", "div-long", "rem-long",
     "and-long", "or-long", "xor-long", "shl-long",
     "shr-long", "ushr-long", "add-float", "sub-float",
     "mul-float", "div-float", "rem-float", "add-double",
     "sub-double", "mul-double", "div-double", "rem-double",
     "add-int/2addr", "sub-int/2addr", "mul-int/2addr", "div-int/2addr",
     "rem-int/2addr", "and-int/2addr", "or-int/2addr", "xor-int/2addr",
     "shl-int/2addr", "shr-int/2addr", "ushr-int/2addr", "add-long/2addr",
     "sub-long/2addr", "mul-long/2addr", "div-long/2addr", "rem-long/2addr",
     "and-long/2addr", "or-long/2addr", "xor-long/2addr", "shl-long/2addr",
     "shr-long/2addr", "ushr-long/2addr", "add-float/2addr", "sub-float/2addr",
     "mul-float/2addr", "div-float/2addr", "rem-float/2addr", "add-double/2addr",
     "sub-double/2addr", "mul-double/2addr", "div-double/2addr", "rem-double/2addr",
     "add-int/lit16", "rsub-int", "mul-int/lit16", "div-int/lit16",
     "rem-int/lit16", "and-int/lit16", "or-int/lit16", "xor-int/lit16",
     "add-int/lit8", "rsub-int/lit8", "mul-int/lit8", "div-int/lit8",
     "rem-int/lit8", "and-int/lit8", "or-int/lit8", "xor-int/lit8",
     "shl-int/lit8", "shr-int/lit8", "ushr-int/lit8", "unused-e3",
     "unused-e4", "unused-e5", "unused-e6", "unused-e7",
     "unused-e8", "unused-e9", "unused-ea", "unused-eb",
     "unused-ec", "unused-ed", "unused-ee", "unused-ef",
     "unused-f0", "unused-f1", "unused-f2", "unused-f3",
     "unused-f4", "unused-f5", "unused-f6", "unused-f7",
     "unused-f8", "unused-f9", "invoke-polymorphic", "invoke-polymorphic/range",
     "invoke-custom", "invoke-custom/range", "const-method-handle", "const-method-type" >>

\* the format column of INSN_DESCRIPTORS, by opcode
OpcodeFormats ==
  << "k10x", "k12x", "k22x", "k32x", "k12x", "k22x", "k32x", "k12x",
     "k22x", "k32x", "k11x", "k11x", "k11x", "k11x", "k10x", "k11x",
     "k11x", "k11x", "k11n", "k21s", "k31i", "k21h", "k21s", "k31i",
     "k51l", "k21h", "k21c", "k31c", "k21c", "k11x", "k11x", "k21c",
     "k22c", "k12x", "k21c", "k22c", "k35c", "k3rc", "k31t", "k11x",
     "k10t", "k20t", "k30t", "k31t", "k31t", "k23x", "k23x", "k23x",
     "k23x", "k23x", "k22t", "k22t", "k22t", "k22t", "k22t", "k22t",
     "k21t", "k21t", "k21t", "k21t", "k21t", "k21t", "k10x", "k10x",
     "k10x", "k10x", "k10x", "k10x", "k23x", "k23x", "k23x", "k23x",
     "k23x", "k23x", "k23x", "k23x", "k23x", "k23x", "k23x", "k23x",
     "k23x", "k23x", "k22c", "k22c", "k22c", "k22c", "k22c", "k22c",
     "k22c", "k22c", "k22c", "k22c", "k22c", "k22c", "k22c", "k22c",
     "k21c", "k21c", "k21c", "k21c", "k21c", "k21c", "k21c", "k21c",
     "k21c", "k21c", "k21c", "k21c", "k21c", "k21c", "k35c", "k35c",
     "k35c", "k35c", "k35c", "k10x", "k3rc", "k3rc", "k3rc", "k3rc",
     "k3rc", "k10x", "k10x", "k12x", "k12x", "k12x", "k12x", "k12x",
     "k12x", "k12x", "k12x", "k12x", "k12x", "k12x", "k12x", "k12x",
     "k12x", "k12x", "k12x", "k12x", "k12x", "k12x", "k12x", "k12x",
     "k23x", "k23x", "k23x", "k23x", "k23x", "k23x", "k23x", "k23x",
     "k23x", "k23x", "k23x", "k23x", "k23x", "k23x", "k23x", "k23x",
     "k23x", "k23x", "k23x", "k23x", "k23x", "k23x", "k23x", "k23x",
     "k23x", "k23x", "k23x", "k23x", "k23x", "k23x", "k23x", "k23x",
     "k12x", "k12x", "k12x", "k12x", "k12x", "k12x", "k12x", "k12x",
     "k12x", "k12x", "k12x", "k12x", "k12x", "k12x", "k12x", "k12x",
     "k12x", "k12x", "k12x", "k12x", "k12x", "k12x", "k12x", "k12x",
     "k12x", "k12x", "k12x", "k12x", "k12x", "k12x", "k12x", "k12x",
     "k22s", "k22s", "k22s", "k22s", "k22s", "k22s", "k22s", "k22s",
     "k22b", "k22b", "k22b", "k22b", "k22b", "k22b", "k22b", "k22b",
     "k22b", "k22b", "k22b", "k10x", "k10x", "k10x", "k10x", "k10x",
     "k10x", "k10x", "k10x", "k10x", "k10x", "k10x", "k10x", "k10x",
     "k10x", "k10x", "k10x", "k10x", "k10x", "k10x", "k10x", "k10x",
     "k10x", "k10x", "k45cc", "k4rcc", "k35c", "k3rc", "k21c", "k21c" >>

\* the declaration order of enum Format
FormatOrder ==
  << "k10x", "k12x", "k11n", "k11x", "k10t", "k20t", "k22x", "k21t", "k21s",
     "k21h", "k21c", "k23x", "k22b", "k22t", "k22s", "k22c", "k32x", "k30t",
     "k31t", "k31i", "k31c", "k35c", "k3rc", "k45cc", "k4rcc", "k51l",
     "kInvalidFormat" >>

\* `format as u8`
FormatIdx(format) == CHOOSE i \in 0..26 : FormatOrder[i + 1] = format

Complex == 255

Custom == 254

PackedSwitchSignature == 256

SparseSwitchSignature == 512

ArrayDataSignature == 768

\* opcodes named in the source
NOP == 0

CONST_HIGH16 == 21

\* Instruction::code_size_in_code_units_by_opcode
code_size_in_code_units_by_opcode(opcode, format) ==
  LET format_idx == FormatIdx(format)
  IN  IF opcode = NOP THEN Complex
      ELSE IF format_idx >= FormatIdx("k10x") /\ format_idx <= FormatIdx("k10t") THEN 1
      ELSE IF format_idx >= FormatIdx("k20t") /\ format_idx <= FormatIdx("k22c") THEN 2
      ELSE IF format_idx >= FormatIdx("k30t") /\ format_idx <= FormatIdx("k3rc") THEN 3
      ELSE IF format_idx >= FormatIdx("k45cc") /\ format_idx <= FormatIdx("k4rcc") THEN 4
      ELSE IF format_idx = FormatIdx("k51l") THEN 5
      ELSE Custom

\* INSN_DESCRIPTORS[opcode], as built by insn_desc_table!
INSN_DESCRIPTORS ==
  [opcode \in 0..255 |->
     [name |-> OpcodeNames[opcode + 1],
      format |-> OpcodeFormats[opcode + 1],
      size_in_code_units |->
        code_size_in_code_units_by_opcode(opcode, OpcodeFormats[opcode + 1]),
      opcode |-> opcode]]

\* Instruction::format_desc: the descriptor of the low byte of code unit 0
format_desc(inst) == INSN_DESCRIPTORS[At(inst, 0) % 256]

\* Instruction::opcode / format / name
opcode(inst) == format_desc(inst).opcode

format(inst) == format_desc(inst).format

name(inst) == format_desc(inst).name

\* fetch16 without its bounds check: indexing past the end panics
fetch16_unchecked(inst, offset) ==
  IF offset >= Len(inst) THEN Panic ELSE Ok(At(inst, offset))

\* Instruction::fetch16
fetch16(inst, offset) ==
  IF offset >= Len(inst) THEN Err("BadInstruction") ELSE Ok(At(inst, offset))

\* Instruction::fetch32: the two code units as [hi, lo]
fetch32(inst, offset) ==
  IF offset >= Len(inst) THEN Err("BadInstruction")
  ELSE LET lo == fetch16(inst, offset)
           hi == fetch16(inst, offset + 1)
       IN  IF lo.kind /= "Ok" THEN lo
           ELSE IF hi.kind /= "Ok" THEN hi
           ELSE Ok([hi |-> hi.val, lo |-> lo.val])

\* a \div 2
BigHalf(a) == [hi |-> a.hi \div 2, lo |-> (a.lo + (a.hi % 2) * Base) \div 2]

\* the fill-array-data size without the rounding up: 4 + element_size *
\* length / 2
ArrayDataUnits_floor(element_size, length) ==
  LET eh == element_size \div 2
      eb == element_size % 2
      whole == [hi |-> length.hi * eh + ((length.lo * eh) \div Base),
                lo |-> (length.lo * eh) % Base]
      half == IF eb = 0 THEN Big(0) ELSE BigHalf(length)
  IN  BigAdd(BigAdd(whole, half), Big(4))

\* 4 + (element_size * length + 1) / 2 in usize arithmetic, for a u16
\* element_size and a u32 length; with element_size = 2 * eh + eb the
\* quotient is eh * length + (eb * length + 1) / 2, which keeps every limb
\* within range
ArrayDataUnits(element_size, length) ==
  LET eh == element_size \div 2
      eb == element_size % 2
      whole == [hi |-> length.hi * eh + ((length.lo * eh) \div Base),
                lo |-> (length.lo * eh) % Base]
      half == IF eb = 0 THEN Big(0) ELSE BigHalf(BigAdd(length, Big(1)))
  IN  BigAdd(BigAdd(whole, half), Big(4))

\* Instruction::size_in_code_units_complex; the size is a wide integer
size_in_code_units_complex(inst) ==
  LET inst_data == fetch16(inst, 0)
      u1 == fetch16(inst, 1)
      u2 == fetch32(inst, 2)
  IN  IF inst_data.kind /= "Ok" THEN inst_data
      ELSE IF inst_data.val = PackedSwitchSignature
        THEN (IF u1.kind /= "Ok" THEN u1 ELSE Ok(Big(4 + u1.val * 2)))
      ELSE IF inst_data.val = SparseSwitchSignature
        THEN (IF u1.kind /= "Ok" THEN u1 ELSE Ok(Big(2 + u1.val * 4)))
      ELSE IF inst_data.val = ArrayDataSignature
        THEN (IF u1.kind /= "Ok" THEN u1
              ELSE IF u2.kind /= "Ok" THEN u2
              ELSE Ok(ArrayDataUnits(u1.val, u2.val)))
      ELSE Ok(Big(1))

\* size_in_code_units with unwrap_or(0) for a payload whose header is cut off
size_in_code_units_or_zero(inst) ==
  LET size == INSN_DESCRIPTORS[opcode(inst)].size_in_code_units
      complex == size_in_code_units_complex(inst)
  IN  IF size = Complex THEN (IF complex.kind = "Ok" THEN complex.val ELSE Big(0))
      ELSE IF size = Custom THEN Big(1)
      ELSE Big(size)

\* Instruction::size_in_code_units; the size is a wide integer
size_in_code_units(inst) ==
  LET size == INSN_DESCRIPTORS[opcode(inst)].size_in_code_units
      complex == size_in_code_units_complex(inst)
  IN  IF size = Complex THEN (IF complex.kind = "Ok" THEN complex.val ELSE Big(1))
      ELSE IF size = Custom THEN Big(1)
      ELSE Big(size)

\* Instruction::relative_at; offset is a wide integer, the instruction is
\* the slice of the stream from its first code unit on
relative_at(inst, offset) ==
  IF BigLe(Big(Len(inst)), BigAdd(offset, Big(1)))
    THEN Err("BadInstructionOffset")
    ELSE Ok(SliceFrom(inst, Small(offset)))

\* Instruction::next
Instruction_next(inst) == relative_at(inst, size_in_code_units(inst))

(***************************************************************************)
(* Operand accessors (vreg).  An i32 is an integer in -2^31 .. 2^31 - 1.   *)
(***************************************************************************)
OperandAccessError == Err("OperandAccessError")

\* `as i32` of the u32 [hi, lo]
AsI32(v) == IF v.hi >= 32768 THEN (v.hi - Base) * Base + v.lo ELSE v.hi * Base + v.lo

\* vreg::inst_aa, inst_a, inst_b
inst_aa(inst) ==
  LET u == fetch16(inst, 0) IN IF u.kind /= "Ok" THEN u ELSE Ok(u.val \div 256)

inst_a(inst) ==
  LET u == fetch16(inst, 0) IN IF u.kind /= "Ok" THEN u ELSE Ok((u.val \div 256) % 16)

\* inst_b reading the low nibble of the high byte, as inst_a does
inst_b_low(inst) ==
  LET u == fetch16(inst, 0) IN IF u.kind /= "Ok" THEN u ELSE Ok((u.val \div 256) % 16)

inst_b(inst) ==
  LET u == fetch16(inst, 0) IN IF u.kind /= "Ok" THEN u ELSE Ok(u.val \div 4096)

\* fetch16(offset)? as i32
Fetch16I32(inst, offset) == fetch16(inst, offset)

\* fetch32(offset)? as i32
Fetch32I32(inst, offset) ==
  LET u == fetch32(inst, offset) IN IF u.kind /= "Ok" THEN u ELSE Ok(AsI32(u.val))

\* vreg::A
A(inst) ==
  LET f == format(inst)
  IN  IF f \in {"k10t", "k10x", "k11x", "k21c", "k21h", "k21s", "k21t", "k22b",
                "k22x", "k23x", "k31c", "k31i", "k31t", "k3rc", "k51l", "k4rcc"}
        THEN inst_aa(inst)
      ELSE IF f \in {"k11n", "k12x", "k22c", "k22s", "k22t"} THEN inst_a(inst)
      ELSE IF f \in {"k32x", "k20t"} THEN Fetch16I32(inst, 1)
      ELSE IF f = "k30t" THEN Fetch32I32(inst, 1)
      ELSE IF f \in {"k35c", "k45cc"} THEN inst_b(inst)
      ELSE OperandAccessError

\* vreg::wide_b: the u64 as its two u32 halves; a build with debug
\* assertions panics on a format other than k51l
wide_b(inst, debug_assertions) ==
  LET lo == fetch32(inst, 1)
      hi == fetch32(inst, 3)
  IN  IF debug_assertions /\ format(inst) /= "k51l" THEN Panic
      ELSE IF lo.kind /= "Ok" THEN lo
      ELSE IF hi.kind /= "Ok" THEN hi
      ELSE Ok([hi |-> hi.val, lo |-> lo.val])

\* vreg::B
B(inst) ==
  LET f == format(inst)
      b == inst_b(inst)
      u1 == fetch16(inst, 1)
      w == wide_b(inst, FALSE)
  IN  IF f = "k11n"
        THEN (IF b.kind /= "Ok" THEN b
              ELSE Ok(IF b.val >= 8 THEN b.val - 16 ELSE b.val))
      ELSE IF f \in {"k21c", "k21t", "k21s", "k21h", "k22x", "k35c", "k3rc",
                     "k45cc", "k4rcc"}
        THEN Fetch16I32(inst, 1)
      ELSE IF f \in {"k12x", "k22c", "k22s", "k22t"} THEN b
      ELSE IF f \in {"k22b", "k23x"}
        THEN (IF u1.kind /= "Ok" THEN u1 ELSE Ok(u1.val % 256))
      ELSE IF f \in {"k31c", "k31i", "k31t"} THEN Fetch32I32(inst, 1)
      ELSE IF f = "k32x" THEN Fetch16I32(inst, 2)
      ELSE IF f = "k51l" THEN (IF w.kind /= "Ok" THEN w ELSE Ok(AsI32(w.val.lo)))
      ELSE OperandAccessError

\* vreg::C
C(inst) ==
  LET f == format(inst)
      u1 == fetch16(inst, 1)
      u2 == fetch16(inst, 2)
  IN  IF f \in {"k22c", "k22s", "k22t"} THEN Fetch16I32(inst, 1)
      ELSE IF f \in {"k22b", "k23x"}
        THEN (IF u1.kind /= "Ok" THEN u1 ELSE Ok((u1.val \div 256) % 256))
      ELSE IF f \in {"k3rc", "k4rcc"} THEN Fetch16I32(inst, 2)
      ELSE IF f \in {"k35c", "k45cc"}
        THEN (IF u2.kind /= "Ok" THEN u2 ELSE Ok(u2.val % 16))
      ELSE OperandAccessError

\* vreg::H
H(inst) ==
  IF format(inst) \in {"k45cc", "k4rcc"} THEN Fetch16I32(inst, 3)
  ELSE OperandAccessError

\* vreg::var_args: the registers arg[0..count]
var_args(inst) ==
  LET reg_list == fetch16(inst, 2)
      count == inst_b(inst)
      a == inst_a(inst)
      regs == << reg_list.val % 16, (reg_list.val \div 16) % 16,
                 (reg_list.val \div 256) % 16, (reg_list.val \div 4096) % 16,
                 a.val >>
  IN  IF reg_list.kind /= "Ok" THEN reg_list
      ELSE IF count.kind /= "Ok" THEN count
      ELSE IF count.val > 5 THEN Err("InvalidArgCount")
      ELSE Ok([count |-> count.val, arg |-> SubSeq(regs, 1, count.val)])

\* args_range refusing first_reg + last_reg = u16::MAX as well
args_range_strict(inst) ==
  LET c == C(inst)
      a == A(inst)
      first_reg == c.val % Base
      last_reg == a.val % Base
  IN  IF c.kind /= "Ok" THEN c
      ELSE IF a.kind /= "Ok" THEN a
      ELSE IF last_reg = 0 \/ first_reg + last_reg >= U16_MAX THEN Err("InvalidArgRange")
      ELSE Ok([start |-> first_reg, end |-> first_reg + last_reg - 1])

\* vreg::args_range: the inclusive range as (start, end)
args_range(inst) ==
  LET c == C(inst)
      a == A(inst)
      first_reg == c.val % Base
      last_reg == a.val % Base
  IN  IF c.kind /= "Ok" THEN c
      ELSE IF a.kind /= "Ok" THEN a
      ELSE IF last_reg = 0 \/ first_reg + last_reg > U16_MAX THEN Err("InvalidArgRange")
      ELSE Ok([start |-> first_reg, end |-> first_reg + last_reg - 1])

(***************************************************************************)
(* Instruction::to_string without a DexFile.  The string is modelled as    *)
(* the sequence of its pieces: literal text, and numbers with the way      *)
(* they are formatted ("{}", "{:+}", "{:#x}").                             *)
(***************************************************************************)
Txt(s) == [text |-> s]

Num(n) == [num |-> n, fmt |-> "{}"]

Plus(n) == [num |-> n, fmt |-> "{:+}"]

Hex(n) == [num |-> n, fmt |-> "{:#x}"]

\* the number of characters of a piece is at least this
MinLen(piece) == IF "text" \in DOMAIN piece THEN Len(piece.text) ELSE 1

\* r? followed by F(value)
Bind1(r, F(_)) == IF r.kind /= "Ok" THEN r ELSE Ok(F(r.val))

Bind2(r1, r2, F(_, _)) ==
  IF r1.kind /= "Ok" THEN r1
  ELSE IF r2.kind /= "Ok" THEN r2
  ELSE Ok(F(r1.val, r2.val))

Bind3(r1, r2, r3, F(_, _, _)) ==
  IF r1.kind /= "Ok" THEN r1
  ELSE IF r2.kind /= "Ok" THEN r2
  ELSE IF r3.kind /= "Ok" THEN r3
  ELSE Ok(F(r1.val, r2.val, r3.val))

\* var_args.arg.iter().map(|reg| format!("v{}", reg)).join(", ")
ArgsStr(arg) ==
  [i \in 1..(2 * Len(arg)) |->
     IF i % 2 = 1 THEN Txt(IF i = 1 THEN "v" ELSE ", v") ELSE Num(arg[i \div 2])]

INVOKE_CUSTOM == 252

INVOKE_CUSTOM_RANGE == 253

\* Instruction::to_string::<C>(None)
to_string(inst) ==
  LET op == name(inst)
      f == format(inst)
      u0 == fetch16(inst, 0)
  IN  IF opcode(inst) = NOP
        THEN Bind1(u0, LAMBDA u :
               << Txt(IF u = ArrayDataSignature THEN "array-data"
                      ELSE IF u = PackedSwitchSignature THEN "packed-switch"
                      ELSE IF u = SparseSwitchSignature THEN "sparse-switch"
                      ELSE op) >>)
      ELSE IF f = "k10x" THEN Ok(<< Txt(op) >>)
      ELSE IF f \in {"k12x", "k22x", "k32x"}
        THEN Bind2(A(inst), B(inst), LAMBDA a, b :
               << Txt(op), Txt(" v"), Num(a), Txt(", v"), Num(b) >>)
      ELSE IF f \in {"k11n", "k21s", "k31i"}
        THEN Bind2(A(inst), B(inst), LAMBDA a, b :
               << Txt(op), Txt(" v"), Num(a), Txt(", #"), Plus(b) >>)
      ELSE IF f = "k11x"
        THEN Bind1(A(inst), LAMBDA a : << Txt(op), Txt(" v"), Num(a) >>)
      ELSE IF f \in {"k10t", "k20t", "k30t"}
        THEN Bind1(A(inst), LAMBDA a : << Txt(op), Txt(" "), Plus(a) >>)
      ELSE IF f \in {"k21t", "k31t"}
        THEN Bind2(A(inst), B(inst), LAMBDA a, b :
               << Txt(op), Txt(" v"), Num(a), Txt(", "), Plus(b) >>)
      ELSE IF f = "k21h"
        THEN Bind2(B(inst), A(inst), LAMBDA b, a :
               IF opcode(inst) = CONST_HIGH16
                 THEN << Txt(op), Txt(" v"), Num(a), Txt(", #int "),
                         Plus([shl |-> 16, of |-> b]), Txt(" // "),
                         Hex([shl |-> 16, of |-> b]) >>
               ELSE << Txt(op), Txt(" v"), Num(a), Txt(", #long "),
                       Plus([shl |-> 48, of |-> b]), Txt(" // "),
                       Hex([shl |-> 48, of |-> b]) >>)
      ELSE IF f = "k21c"
        THEN Bind2(A(inst), B(inst), LAMBDA a, b :
               << Txt(op), Txt(" v"), Num(a), Txt(", thing@"), Num(b) >>)
      ELSE IF f = "k23x"
        THEN Bind3(A(inst), B(inst), C(inst), LAMBDA a, b, c :
               << Txt(op), Txt(" v"), Num(a), Txt(", v"), Num(b), Txt(", v"), Num(c) >>)
      ELSE IF f \in {"k22b", "k22s"}
        THEN Bind3(A(inst), B(inst), C(inst), LAMBDA a, b, c :
               << Txt(op), Txt(" v"), Num(a), Txt(", v"), Num(b), Txt(", #"), Plus(c) >>)
      ELSE IF f = "k22t"
        THEN Bind3(A(inst), B(inst), C(inst), LAMBDA a, b, c :
               << Txt(op), Txt(" v"), Num(a), Txt(", v"), Num(b), Txt(", "), Plus(c) >>)
      ELSE IF f = "k22c"
        THEN Bind3(C(inst), A(inst), B(inst), LAMBDA index, a, b :
               << Txt(op), Txt(" v"), Num(a), Txt(", v"), Num(b),
                  Txt(", thing@"), Num(index) >>)
      ELSE IF f = "k31c"
        THEN Bind2(B(inst), A(inst), LAMBDA index, a :
               << Txt(op), Txt(" v"), Num(a), Txt(", thing@"), Num(index) >>)
      ELSE IF f = "k35c"
        THEN Bind2(var_args(inst), B(inst), LAMBDA va, index :
               << Txt(op), Txt(" {") >> \o ArgsStr(va.arg)
                 \o << Txt(IF opcode(inst) = INVOKE_CUSTOM THEN "}, // call_site@"
                           ELSE "}, thing@"), Num(index) >>)
      ELSE IF f = "k3rc"
        THEN Bind2(args_range(inst), B(inst), LAMBDA r, index :
               << Txt(op), Txt(" {v"), Num(r.start), Txt(" .. v"), Num(r.end),
                  Txt(IF opcode(inst) = INVOKE_CUSTOM_RANGE THEN "}, // call_site@"
                      ELSE "} thing@"), Num(index) >>)
      ELSE IF f = "k45cc"
        THEN Bind3(var_args(inst), B(inst), H(inst), LAMBDA va, m, pr :
               << Txt(op), Txt(" {") >> \o ArgsStr(va.arg)
                 \o << Txt("}, method@"), Num(m), Txt(", proto@"), Num(pr) >>)
      ELSE IF f = "k4rcc"
        THEN Bind3(args_range(inst), B(inst), H(inst), LAMBDA r, m, pr :
               << Txt(op), Txt(" {v"), Num(r.start), Txt(" .. v"), Num(r.end),
                  Txt("}, method@"), Num(m), Txt(", proto@"), Num(pr) >>)
      ELSE IF f = "k51l"
        THEN Bind2(A(inst), wide_b(inst, FALSE), LAMBDA a, w :
               << Txt(op), Txt(" v"), Num(a), Txt(", #"), Plus(w) >>)
      ELSE Ok(<< Txt("<invalid-opcode-format>") >>)

(***************************************************************************)
(* The instruction iterator with the pretty-printer applied to every       *)
(* instruction it yields.                                                  *)
(***************************************************************************)
CodeUnit == 0..U16_MAX

\* high bytes of a first code unit: payload signatures, register nibbles,
\* a register count above 5
HighBytes == {0, 1, 2, 3, 33, 96, 255}

\* code units following the first one
Operands == {0, 1, U16_MAX}

\* one opcode of every multi-unit format, and the opcodes to_string
\* distinguishes
SampleOpcodes == {0, 2, 3, 20, 21, 24, 25, 26, 27, 36, 37, 42, 45, 250, 251, 252, 253}

\* all sequences over S of length n
RECURSIVE SeqsOfLen(_, _)
SeqsOfLen(S, n) ==
  IF n = 0 THEN { << >> }
  ELSE { << x >> \o t : x \in S, t \in SeqsOfLen(S, n - 1) }

\* payload headers of three and four elements, whole and cut off
PayloadStreams ==
  { SubSeq(<< s, u, v, w >>, 1, k)
      : s \in {PackedSwitchSignature, SparseSwitchSignature,
               ArrayDataSignature},
        u \in {3, 4}, v \in {0, 3}, w \in {0, 1}, k \in 1..4 }

\* filled-new-array/range (3rc) and invoke-polymorphic/range (4rcc) with
\* register counts and first registers around the limit of u16::MAX
RangeStreams ==
  { << op + 256 * count, 0, first >> \o t
      : op \in {37, 251}, count \in {0, 1, 2, 255},
        first \in {0, 1, U16_MAX - 255, U16_MAX - 2, U16_MAX - 1, U16_MAX},
        t \in { << >>, << 0 >> } }

\* const/4 vA, #+B (11n) for every A and B, and the code unit 0x1230
NibbleStreams == { << 18 + 256 * h >> : h \in 0..255 } \cup { << 4656 >> }

\* the streams: empty; every opcode followed by zeros; the sample opcodes
\* followed by every operand sequence
Streams ==
  { << >> }
  \cup PayloadStreams
  \cup RangeStreams
  \cup NibbleStreams
  \cup { << op + 256 * h >> \o Zeros(k)
           : op \in 0..255, h \in HighBytes, k \in 0..(MaxUnits - 1) }
  \cup { << op + 256 * h >> \o t
           : op \in SampleOpcodes, h \in HighBytes,
             t \in UNION { SeqsOfLen(Operands, k) : k \in 0..(MaxUnits - 1) } }

InitInsn ==
  /\ instructions \in Streams
  /\ pc = Big(0)
  /\ item = Idle
  /\ operand = Idle
  /\ IdleOpen
  /\ IdleDec

\* DexInstructionIterator::next followed by Instruction::to_string(None)
\* and Instruction::next on the instruction it yields
IteratorNext ==
  /\ item.op /= "None"
  /\ IF BigLt(pc, Big(Len(instructions)))
       THEN LET inst == SliceFrom(instructions, Small(pc))
            IN  /\ pc' = BigAdd(pc, size_in_code_units(inst))
                /\ item' = [op |-> "Some", at |-> Small(pc),
                            size |-> size_in_code_units(inst),
                            dump |-> to_string(inst)]
                /\ operand' = [op |-> "next", res |-> Instruction_next(inst)]
       ELSE /\ pc' = pc
            /\ item' = [op |-> "None"]
            /\ operand' = operand
  /\ UNCHANGED instructions
  /\ UNCHANGED NotInsn

NextInsn == IteratorNext

SpecInsn == InitInsn /\ [][NextInsn]_vars

RECURSIVE MinLenFrom(_, _)
\* a lower bound of the length of the string made of pieces[i..]
MinLenFrom(pieces, i) ==
  IF i > Len(pieces) THEN 0 ELSE MinLen(pieces[i]) + MinLenFrom(pieces, i + 1)

\* C4: for every stream of code units, iterating its instructions and
\* pretty-printing each one yields, for each instruction, an Ok string of
\* non-zero length or an Err, never a panic; every instruction starts inside
\* the stream and the iterator advances by at least one code unit.
C4_IterateAndPrintIsTotal ==
  item.op = "Some" =>
    /\ item.at < Len(instructions)
    /\ BigLe(Big(1), item.size)
    /\ pc = BigAdd(Big(item.at), item.size)
    /\ item.dump.kind \in {"Ok", "Err"}
    /\ item.dump.kind = "Ok" => MinLenFrom(item.dump.val, 1) > 0

\* a truncated instruction after the first one was printed as an Err
C4_Witness ==
  /\ item.op = "Some"
  /\ item.at > 0
  /\ item.dump.kind = "Err"


(***************************************************************************)
(* LEB128.  The unsigned decoder is varint_simd::decode::<u32>: at most    *)
(* five bytes, the fifth at most 0x0f.  A varint cut off by the end of the *)
(* slice is either refused or read as if zero bytes followed, with a size  *)
(* one past the slice.                                                     *)
(***************************************************************************)
VarIntError(e) == [name |-> "VarIntError", kind |-> e]

RECURSIVE LebSize(_, _)
\* the number of bytes up to and including the first one at or after index
\* i without the continuation bit; the end of the slice counts as one
LebSize(b, i) ==
  IF i > Len(b) \/ b[i] < 128 THEN i ELSE LebSize(b, i + 1)

\* the 7-bit group i of a varint of the given size
LebGroup(b, i, size) == IF i <= size /\ i <= Len(b) THEN b[i] % 128 ELSE 0

decode_leb128(data_in, pads) ==
  IF Len(data_in) = 0 THEN Err(VarIntError("NotEnoughBytes"))
  ELSE LET size == LebSize(data_in, 1)
           g(i) == LebGroup(data_in, i, size)
       IN  IF size > 5 \/ (size = 5 /\ Len(data_in) >= 5 /\ data_in[5] > 15)
             THEN Err(VarIntError("Overflow"))
           ELSE IF size > Len(data_in) /\ ~pads
             THEN Err(VarIntError("NotEnoughBytes"))
           ELSE Ok([value |-> [hi |-> (g(3) \div 4) + 32 * g(4)
                                        + 4096 * (g(5) % 16),
                               lo |-> g(1) + 128 * g(2) + 16384 * (g(3) % 4)],
                    size |-> size])

\* the value and the advanced position, or the failure
decode_leb128_off(data_in, ptr_pos, pads) ==
  IF ptr_pos > Len(data_in) THEN Panic
  ELSE LET r == decode_leb128(SliceFrom(data_in, ptr_pos), pads)
       IN  IF r.kind = "Ok"
             THEN Ok([value |-> r.val.value, pos |-> ptr_pos + r.val.size])
             ELSE r

I32_MIN == -2147483647 - 1

\* the signed decoder: an i32 and the advanced position; cut-off and
\* over-long encodings and magnitudes beyond 32 bits fail with VarIntError
decode_sleb128(data_in, ptr_pos) ==
  LET b == SliceFrom(data_in, ptr_pos)
      size == LebSize(b, 1)
      g(i) == LebGroup(b, i, size)
      low == g(1) + 128 * g(2) + 16384 * g(3) + 2097152 * g(4)
      neg == g(size) >= 64
  IN  IF size > Len(b) THEN Err(VarIntError("NotEnoughBytes"))
      ELSE IF size > 5 \/ (size = 5 /\ g(5) \notin (0..7) \cup (120..127))
        THEN Err(VarIntError("Overflow"))
      ELSE Ok([value |-> IF size = 5
                           THEN ((g(5) % 16) - (IF neg THEN 16 ELSE 0))
                                  * 268435456 + low
                         ELSE IF neg
                           THEN low - (CASE size = 1 -> 128
                                         [] size = 2 -> 16384
                                         [] size = 3 -> 2097152
                                         [] size = 4 -> 268435456)
                         ELSE low,
               pos |-> ptr_pos + size])

(***************************************************************************)
(* EncodedCatchHandlerIterator                                             *)
(***************************************************************************)
\* EncodedCatchHandlerIterator::new
EncodedCatchHandlerIterator(data, checked) ==
  LET r == decode_sleb128(data, 0)
      remaining == r.val.value
  IN  IF r.kind /= "Ok" THEN r
      ELSE IF remaining = I32_MIN /\ checked THEN Panic
      ELSE Ok([data |-> data,
               offset |-> r.val.pos,
               has_catch_all |-> remaining <= 0,
               remaining |-> IF remaining <= 0 /\ remaining /= I32_MIN
                               THEN -remaining ELSE remaining])

\* EncodedCatchHandlerIterator::leb128 at the given offset
leb128(self, offset) ==
  LET r == decode_leb128_off(self.data, offset, varint_pads)
  IN  IF r.kind = "Ok" THEN r ELSE Panic

\* i16::MAX in place of u16::MAX
TypeIndexMax_i16 == U16_MAX \div 2

TypeIndexMax == U16_MAX

\* Iterator::next: the iterator afterwards and the item
CatchHandlerNext(self) ==
  IF self.remaining = -1 THEN [self |-> self, item |-> [op |-> "None"]]
  ELSE IF self.remaining > 0 THEN
    LET t == leb128(self, self.offset)
        a == leb128(self, t.val.pos)
    IN  IF t.kind = "Panic" \/ a.kind = "Panic"
          THEN [self |-> self, item |-> [op |-> "Panic"]]
          ELSE [self |-> [self EXCEPT !.offset = a.val.pos,
                                      !.remaining = self.remaining - 1],
                item |-> [op |-> "Some", is_catch_all |-> FALSE,
                          type_idx |-> t.val.value.lo,
                          address |-> a.val.value]]
  ELSE IF self.has_catch_all THEN
    LET a == leb128(self, self.offset)
    IN  IF a.kind = "Panic"
          THEN [self |-> self, item |-> [op |-> "Panic"]]
          ELSE [self |-> [self EXCEPT !.offset = a.val.pos,
                                      !.has_catch_all = FALSE],
                item |-> [op |-> "Some", is_catch_all |-> TRUE,
                          type_idx |-> TypeIndexMax,
                          address |-> a.val.value]]
  ELSE [self |-> [self EXCEPT !.remaining = -1], item |-> [op |-> "None"]]

\* bytes of a LEB128 stream: small values, the sign bit of a one-byte
\* SLEB128, continuation bytes
LebBytes == {0, 1, 2, 15, 16, 64, 120, 127, 128, 129, 255}

MaxHandlers == 2

RECURSIVE TypedHandlers(_)
\* count typed handlers, each a type index and an address of one byte
TypedHandlers(count) ==
  IF count = 0 THEN << >> ELSE << count, 16 >> \o TypedHandlers(count - 1)

\* whole catch-handler lists of up to MaxHandlers typed handlers, without
\* and with a catch-all address, alone and followed by one more byte
CatchLists ==
  { << n >> \o TypedHandlers(n) \o t
      : n \in 1..MaxHandlers, t \in { << >>, << 1 >> } }
  \cup { << (128 - n) % 128 >> \o TypedHandlers(n) \o << 64 >> \o t
           : n \in 0..MaxHandlers, t \in { << >>, << 1 >> } }

\* the list FF 05 00 06 02 07, and the list 7F 05 00 07: size -1, one typed
\* handler (type 5, address 0) and the catch-all address 7
ScenarioLists == { << 255, 5, 0, 6, 2, 7 >>, << 127, 5, 0, 7 >> }

\* every window of up to MaxBytes bytes, whole lists, and five-byte varints
LebWindows ==
  UNION { SeqsOfLen(LebBytes, k) : k \in 0..MaxBytes }
  \cup CatchLists
  \cup ScenarioLists
  \cup { << 128, 128, 128, 128, x >> \o t
           : x \in LebBytes, t \in { << >>, << 1 >> } }

InitCatch ==
  /\ window \in LebWindows
  /\ varint_pads \in BOOLEAN
  /\ overflow_checks \in BOOLEAN
  /\ handlers = Idle
  /\ handler = Idle
  /\ decoded = Idle
  /\ accessor = Idle
  /\ iter = Idle
  /\ members = << >>
  /\ yielded = << >>
  /\ debug_info = Idle
  /\ utf16 = << >>
  /\ IdleFile
  /\ IdleInsn

\* EncodedCatchHandlerIterator::new(data)
CatchNew ==
  /\ handlers = Idle
  /\ handlers' = EncodedCatchHandlerIterator(window, overflow_checks)
  /\ UNCHANGED << debug_info, yielded, utf16, varint_pads, window, handler, decoded,
                  accessor, iter, members >>
  /\ UNCHANGED NotDec

\* one step of `for handler in iterator`
CatchNext ==
  /\ handlers /= Idle
  /\ handlers.kind = "Ok"
  /\ handler = Idle \/ handler.op \in {"Some", "None"}
  /\ LET r == CatchHandlerNext(handlers.val)
     IN  /\ handlers' = Ok(r.self)
         /\ handler' = r.item
         /\ yielded' = IF r.item.op = "Some" THEN Append(yielded, r.item)
                       ELSE yielded
  /\ UNCHANGED << debug_info, utf16, varint_pads, window, decoded, accessor, iter,
                  members >>
  /\ UNCHANGED NotDec

NextCatch == CatchNew \/ CatchNext

SpecCatch == InitCatch /\ [][NextCatch]_vars

\* C7: for every byte sequence, constructing the encoded-catch-handler
\* iterator and iterating it to exhaustion never panics: a truncated or
\* malformed LEB128 in the leading size, a type index or an address ends
\* the iteration or surfaces an error.
C7_CatchHandlersNeverPanic ==
  /\ handlers /= Idle => handlers.kind /= "Panic"
  /\ handler /= Idle => handler.op /= "Panic"

(***************************************************************************)
(* Encoded values.  usize is 64 bits wide: offsets and the products of a   *)
(* u32 length do not overflow it.                                          *)
(***************************************************************************)
EncodedValueType ==
  [Byte |-> 0, Short |-> 2, Char |-> 3, Int |-> 4, Long |-> 6, Float |-> 16,
   Double |-> 17, MethodType |-> 21, MethodHandle |-> 22, String |-> 23,
   Type |-> 24, Field |-> 25, Method |-> 26, Enum |-> 27, Array |-> 28,
   Annotation |-> 29, Null |-> 30, Boolean |-> 31]

\* EncodedValueType::is_valid
is_valid(value_type) ==
  value_type \in {0} \cup (2..4) \cup {6, 16, 17} \cup (21..31)

\* EncodedValueType::from: the name of the variant
EncodedValueTypeFrom(value_type) ==
  CHOOSE n \in DOMAIN EncodedValueType : EncodedValueType[n] = value_type

check_size(value_arg, value_type, width, offset, value, size) ==
  IF value_arg + 1 >= size
    THEN Err([name |-> "BadEncodedValueSize", value_type |-> value_type,
              size |-> value_arg, max |-> size])
  ELSE IF offset + width >= Len(value)
    THEN Err([name |-> "InvalidEncodedValue", value_type |-> value_type,
              offset |-> offset + width, size |-> Len(value)])
  ELSE Ok(<< >>)

RECURSIVE BigEndian(_)
\* the number whose base-256 digits are b, most significant first
BigEndian(b) ==
  IF Len(b) = 0 THEN 0 ELSE 256 * BigEndian(SubSeq(b, 1, Len(b) - 1)) + b[Len(b)]

RECURSIVE Pow2(_)
Pow2(n) == IF n = 0 THEN 1 ELSE 2 * Pow2(n - 1)

\* as_int!: the loop leaves the first payload byte in the most significant
\* byte of the target and the shift moves the width bytes down, so the
\* payload is read most significant byte first
as_int_payload(value, value_arg, offset) ==
  Slice(value, offset, offset + value_arg + 1)

as_signed_int(value, value_arg, value_type, offset) ==
  LET c == check_size(value_arg, value_type, value_arg + 1, offset, value, 4)
      b == as_int_payload(value, value_arg, offset)
  IN  IF c.kind /= "Ok" THEN c
      ELSE Ok([value |-> BigEndian(b)
                           - (IF b[1] >= 128 THEN Pow2(8 * Len(b)) ELSE 0),
               off |-> offset + value_arg + 1])

\* an i64 of up to seven payload bytes, kept as its digits and its sign
as_signed_long(value, value_arg, value_type, offset) ==
  LET c == check_size(value_arg, value_type, value_arg + 1, offset, value, 8)
      b == as_int_payload(value, value_arg, offset)
  IN  IF c.kind /= "Ok" THEN c
      ELSE Ok([value |-> [digits |-> b, negative |-> b[1] >= 128],
               off |-> offset + value_arg + 1])

as_unsigned_int(value, value_arg, value_type, offset, fill_strategy) ==
  LET c == check_size(value_arg, value_type, value_arg + 1, offset, value, 4)
      b == as_int_payload(value, value_arg, offset)
  IN  IF c.kind /= "Ok" THEN c
      ELSE Ok([value |-> IF fill_strategy = "Left" THEN BigEndian(b)
                         ELSE (BigEndian(b) \div Pow2(30 - value_arg * 8)) \div 2,
               off |-> offset + value_arg + 1])

\* a u64 of up to seven payload bytes, kept as its digits and the number of
\* bits it is shifted right by
as_unsigned_long(value, value_arg, value_type, offset, fill_strategy) ==
  LET c == check_size(value_arg, value_type, value_arg + 1, offset, value, 8)
      b == as_int_payload(value, value_arg, offset)
  IN  IF c.kind /= "Ok" THEN c
      ELSE Ok([value |-> [digits |-> b,
                          shr |-> IF fill_strategy = "Left" THEN 0
                                  ELSE 63 - value_arg * 8],
               off |-> offset + value_arg + 1])

\* x as iN, for a power of two m = 2^N
AsSigned(x, m) == LET r == x % m IN IF r >= m \div 2 THEN r - m ELSE r

RECURSIVE EncodedValue_from_raw_parts(_, _, _)
RECURSIVE from_encoded_array(_, _, _)
RECURSIVE EncodedAnnotation_from_raw_parts(_, _, _)
RECURSIVE AnnotationElement_from_raw_parts(_, _, _)
RECURSIVE ValuesFrom(_, _, _, _)
RECURSIVE ElementsFrom(_, _, _, _)

\* for _ in 0..length { values.push(EncodedValue::from_raw_parts(..)?) }
ValuesFrom(value, offset, n, pads) ==
  IF n = 0 THEN Ok([value |-> << >>, off |-> offset])
  ELSE LET r == EncodedValue_from_raw_parts(value, offset, pads)
       IN  IF r.kind /= "Ok" THEN r
           ELSE LET rest == ValuesFrom(value, r.val.off, n - 1, pads)
                IN  IF rest.kind /= "Ok" THEN rest
                    ELSE Ok([value |-> << r.val.value >> \o rest.val.value,
                             off |-> rest.val.off])

\* for _ in 0..length { elements.push(AnnotationElement::from_raw_parts(..)?) }
ElementsFrom(value, offset, n, pads) ==
  IF n = 0 THEN Ok([value |-> << >>, off |-> offset])
  ELSE LET r == AnnotationElement_from_raw_parts(value, offset, pads)
       IN  IF r.kind /= "Ok" THEN r
           ELSE LET rest == ElementsFrom(value, r.val.off, n - 1, pads)
                IN  IF rest.kind /= "Ok" THEN rest
                    ELSE Ok([value |-> << r.val.value >> \o rest.val.value,
                             off |-> rest.val.off])

AnnotationElement_from_raw_parts(value, offset, pads) ==
  IF offset > Len(value) THEN Panic
  ELSE LET n == decode_leb128(SliceFrom(value, offset), pads)
       IN  IF n.kind /= "Ok" THEN n
           ELSE LET v == EncodedValue_from_raw_parts(value,
                                                     offset + n.val.size, pads)
                IN  IF v.kind /= "Ok" THEN v
                    ELSE Ok([value |-> [name_idx |-> n.val.value,
                                        value |-> v.val.value],
                             off |-> v.val.off])

BadEncodedArrayLength(value_type, value, offset) ==
  Err([name |-> "BadEncodedArrayLength", value_type |-> value_type,
       size |-> Len(value), offset |-> offset, max |-> Len(value)])

EncodedAnnotation_from_raw_parts(value, offset, pads) ==
  IF offset > Len(value) THEN Panic
  ELSE LET t == decode_leb128(SliceFrom(value, offset), pads)
           at == offset + t.val.size
       IN  IF t.kind /= "Ok" THEN t
           ELSE IF at > Len(value) THEN Panic
           ELSE LET l == decode_leb128(SliceFrom(value, at), pads)
                    off == at + l.val.size
                    length == l.val.value
                IN  IF l.kind /= "Ok" THEN l
                    ELSE IF BigLe(Big(Len(value)),
                                  BigAdd(Big(off), BigMul(length, 2)))
                      THEN BadEncodedArrayLength(EncodedValueType.Annotation,
                                                 value, off)
                    ELSE LET e == ElementsFrom(value, off, Small(length), pads)
                         IN  IF e.kind /= "Ok" THEN e
                             ELSE Ok([value |-> [type_idx |-> t.val.value,
                                                 elements |-> e.val.value],
                                      off |-> e.val.off])

from_encoded_array(value, offset, pads) ==
  IF offset > Len(value) THEN Panic
  ELSE LET l == decode_leb128(SliceFrom(value, offset), pads)
           off == offset + l.val.size
           length == l.val.value
       IN  IF l.kind /= "Ok" THEN l
           ELSE IF off >= Len(value)
             THEN Err([name |-> "InvalidEncodedValue",
                       value_type |-> EncodedValueType.Array,
                       offset |-> off, size |-> Len(value)])
           ELSE IF BigLe(Big(Len(value)), BigAdd(Big(off), BigMul(length, 2)))
             THEN BadEncodedArrayLength(EncodedValueType.Array, value, off)
           ELSE ValuesFrom(value, off, Small(length), pads)

from_encoded_annotation(value, offset, pads) ==
  EncodedAnnotation_from_raw_parts(value, offset, pads)

\* the payload of a primitive or reference value: the variant's content and
\* the offset after it
ScalarPayload(ty, value, value_arg, value_type, offset) ==
  LET Cast(r, f(_)) ==
        IF r.kind /= "Ok" THEN r
        ELSE Ok([value |-> f(r.val.value), off |-> r.val.off])
      Same(x) == x
      signed == as_signed_int(value, value_arg, value_type, offset)
      left == as_unsigned_int(value, value_arg, value_type, offset, "Left")
  IN  CASE ty = "Byte" -> Cast(signed, LAMBDA x : AsSigned(x, 256))
        [] ty = "Short" -> Cast(signed, LAMBDA x : AsSigned(x, Base))
        [] ty = "Char" -> Cast(left, LAMBDA x : x % Base)
        [] ty = "Int" -> signed
        [] ty = "Long" ->
             as_signed_long(value, value_arg, value_type, offset)
        [] ty = "Float" ->
             as_unsigned_int(value, value_arg, value_type, offset, "Right")
        [] ty = "Double" ->
             as_unsigned_long(value, value_arg, value_type, offset, "Right")
        [] ty \in {"MethodType", "MethodHandle", "String", "Type", "Field",
                   "Method", "Enum"} -> Cast(left, Same)

\* the payload of a value of the given type: the variant's content and the
\* offset after it
EncodedValuePayload(ty, value, value_arg, value_type, offset, pads) ==
  CASE ty = "Array" -> from_encoded_array(value, offset, pads)
    [] ty = "Annotation" -> from_encoded_annotation(value, offset, pads)
    [] ty = "Null" -> Ok([value |-> << >>, off |-> offset])
    [] ty = "Boolean" -> Ok([value |-> value_arg /= 0, off |-> offset])
    [] OTHER -> ScalarPayload(ty, value, value_arg, value_type, offset)

EncodedValue_from_raw_parts(value, offset, pads) ==
  IF offset >= Len(value) THEN Err([name |-> "EmptyEncodedValue"])
  ELSE LET header_byte == At(value, offset)
           value_type == header_byte % 32
           value_arg == header_byte \div 32
       IN  IF ~is_valid(value_type)
             THEN Err([name |-> "BadEncodedValueType",
                       value_type |-> value_type])
           ELSE LET ty == EncodedValueTypeFrom(value_type)
                    r == EncodedValuePayload(ty, value, value_arg, value_type,
                                             offset + 1, pads)
                IN  IF r.kind /= "Ok" THEN r
                    ELSE Ok([value |-> [type |-> ty, value |-> r.val.value],
                             off |-> r.val.off])

\* EncodedValue::new
EncodedValue(value, pads) ==
  LET r == EncodedValue_from_raw_parts(value, 0, pads)
  IN  IF r.kind = "Ok" THEN Ok(r.val.value) ELSE r

\* value types: the valid ones and two invalid ones
HeaderTypes == {0, 1, 2, 3, 4, 5, 6, 16, 17} \cup (21..31)

\* value_arg: one byte, the widest accepted i32 and i64, too wide
HeaderArgs == {0, 2, 3, 6, 7}

\* bytes after the header byte: payload digits, lengths, nested headers,
\* a cut-off varint
TailBytes == {0, 1, 28, 30, 128}

\* values of two bytes for the two-byte types and of three and four bytes
\* for the four-byte types, alone and followed by one more byte
FullWidthWindows ==
  { << t + 32 * a >> \o SubSeq(<< 1, 2, 3, 4 >>, 1, a + 1) \o z
      : t \in {0, 2, 3, 4, 16, 23, 27}, a \in 1..3, z \in { << >>, << 0 >> } }

ValueWindows ==
  { << >> }
  \cup { << t + 32 * a >> \o tail
           : t \in HeaderTypes, a \in HeaderArgs,
             tail \in UNION { SeqsOfLen(TailBytes, k) : k \in 0..MaxBytes } }
  \cup { << 28, 1, 28, 1, 30, 0, 0, 0 >>, << 29, 0, 1, 0, 30, 0, 0 >>,
         << 6 + 32 * 6, 255, 1, 2, 3, 4, 5, 6, 0 >>,
         << 17 + 32 * 6, 255, 1, 2, 3, 4, 5, 6, 0 >> }
  \cup FullWidthWindows

InitValue ==
  /\ window \in ValueWindows
  /\ varint_pads \in BOOLEAN
  /\ handlers = Idle
  /\ handler = Idle
  /\ decoded = Idle
  /\ accessor = Idle
  /\ iter = Idle
  /\ members = << >>
  /\ yielded = << >>
  /\ debug_info = Idle
  /\ utf16 = << >>
  /\ IdleOpen
  /\ IdleInsn

\* EncodedValue::new(data)
EncodedValueNew ==
  /\ decoded = Idle
  /\ decoded' = EncodedValue(window, varint_pads)
  /\ UNCHANGED << debug_info, yielded, utf16, varint_pads, window, handlers, handler, accessor, iter,
                  members >>
  /\ UNCHANGED NotDec

NextValue == EncodedValueNew

SpecValue == InitValue /\ [][NextValue]_vars

EncodedValueErrors ==
  {"EmptyEncodedValue", "BadEncodedValueType", "BadEncodedValueSize",
   "InvalidEncodedValue", "BadEncodedArrayLength", "VarIntError"}

\* C8: for every byte sequence, decoding an encoded value, nested arrays
\* and sub-annotations included, ends with an owned value or with one of
\* the typed errors EmptyEncodedValue, BadEncodedValueType,
\* BadEncodedValueSize, InvalidEncodedValue, BadEncodedArrayLength or a
\* varint error; it never panics and never reads past the byte window.
C8_EncodedValueDecodeIsTotal ==
  decoded /= Idle =>
    \/ decoded.kind = "Ok"
    \/ decoded.kind = "Err" /\ decoded.err.name \in EncodedValueErrors

(***************************************************************************)
(* MUTF-8.  A u32 holding one or two UTF-16 code units is a wide integer:  *)
(* lo is the leading unit and hi the trailing one.                         *)
(***************************************************************************)
\* the code units and the advanced offset; a read at or past the end of
\* the slice panics
utf16_from_utf8(utf8_data_in, offset) ==
  LET n == Len(utf8_data_in)
      one == At(utf8_data_in, offset)
      two == At(utf8_data_in, offset + 1)
      three == At(utf8_data_in, offset + 2)
      four == At(utf8_data_in, offset + 3)
      code_point == (one % 16) * 262144 + (two % 64) * 4096
                      + (three % 64) * 64 + (four % 64)
  IN  IF offset >= n THEN Panic
      ELSE IF one < 128 THEN Ok([ch |-> Big(one), off |-> offset + 1])
      ELSE IF offset + 1 >= n THEN Panic
      ELSE IF (one \div 32) % 2 = 0
        THEN Ok([ch |-> Big((one % 32) * 64 + (two % 64)), off |-> offset + 2])
      ELSE IF offset + 2 >= n THEN Panic
      ELSE IF (one \div 16) % 2 = 0
        THEN Ok([ch |-> Big((one % 16) * 4096 + (two % 64) * 64 + (three % 64)),
                 off |-> offset + 3])
      ELSE IF offset + 3 >= n THEN Panic
      ELSE Ok([ch |-> [lo |-> ((code_point \div 1024) + 55232) % Base,
                       hi |-> (code_point % 1024) + 56448],
               off |-> offset + 4])

trailing_utf16_char(maybe_pair) == maybe_pair.hi

leading_utf16_char(maybe_pair) == maybe_pair.lo

RECURSIVE Mutf8LenFrom(_, _, _)
\* the loop of mutf8_len from in_idx on
Mutf8LenFrom(utf8_data_in, utf8_in_len, in_idx) ==
  IF in_idx >= utf8_in_len THEN 0
  ELSE LET ic == At(utf8_data_in, in_idx)
       IN  IF ic < 128
             THEN 1 + Mutf8LenFrom(utf8_data_in, utf8_in_len, in_idx + 1)
           ELSE IF (ic \div 32) % 2 = 0
             THEN 1 + Mutf8LenFrom(utf8_data_in, utf8_in_len, in_idx + 2)
           ELSE IF (ic \div 16) % 2 = 0
             THEN 1 + Mutf8LenFrom(utf8_data_in, utf8_in_len, in_idx + 3)
           ELSE 2 + Mutf8LenFrom(utf8_data_in, utf8_in_len, in_idx + 4)

mutf8_len(utf8_data_in, utf8_in_len) ==
  Mutf8LenFrom(utf8_data_in, utf8_in_len, 0)

RECURSIVE ConvertFrom(_, _, _)
\* the loop of convert_mutf8_to_utf16 from in_idx on
ConvertFrom(utf8_data_in, utf8_in_len, in_idx) ==
  IF in_idx >= utf8_in_len THEN Ok(<< >>)
  ELSE LET r == utf16_from_utf8(utf8_data_in, in_idx)
           leading == leading_utf16_char(r.val.ch)
           trailing == trailing_utf16_char(r.val.ch)
           rest == ConvertFrom(utf8_data_in, utf8_in_len, r.val.off)
       IN  IF r.kind /= "Ok" THEN r
           ELSE IF rest.kind /= "Ok" THEN rest
           ELSE Ok((IF trailing /= 0 THEN << leading, trailing >>
                    ELSE << leading >>) \o rest.val)

convert_mutf8_to_utf16(utf8_data_in, utf8_in_len, out_chars) ==
  IF Len(utf8_data_in) = out_chars THEN Ok(utf8_data_in)
  ELSE ConvertFrom(utf8_data_in, utf8_in_len, 0)

mutf8_to_utf16(utf8_data_in) ==
  IF Len(utf8_data_in) = 0 THEN Ok(<< >>)
  ELSE LET utf8_in_len == Len(utf8_data_in) - 1
           out_chars == mutf8_len(utf8_data_in, utf8_in_len)
       IN  convert_mutf8_to_utf16(utf8_data_in, utf8_in_len, out_chars)

is_lead(ch) == ch \div 1024 = 54

is_trail(ch) == ch \div 1024 = 55

RECURSIVE FromUtf16(_, _)
\* String::from_utf16 from unit i on: the chars, or the error on an
\* unpaired surrogate
FromUtf16(v, i) ==
  IF i > Len(v) THEN Ok(<< >>)
  ELSE IF is_trail(v[i]) THEN Err([name |-> "Mutf8DecodeError"])
  ELSE IF is_lead(v[i])
    THEN IF i < Len(v) /\ is_trail(v[i + 1])
           THEN LET rest == FromUtf16(v, i + 2)
                IN  IF rest.kind /= "Ok" THEN rest
                    ELSE Ok(<< [plane |-> 1 + (v[i] - 55296) \div 64,
                                low |-> ((v[i] - 55296) % 64) * 1024
                                          + (v[i + 1] - 56320)] >>
                            \o rest.val)
           ELSE Err([name |-> "Mutf8DecodeError"])
  ELSE LET rest == FromUtf16(v, i + 1)
       IN  IF rest.kind /= "Ok" THEN rest
           ELSE Ok(<< [plane |-> 0, low |-> v[i]] >> \o rest.val)

mutf8_to_str(utf8_data_in) ==
  LET utf16_data == mutf8_to_utf16(utf8_data_in)
  IN  IF utf16_data.kind /= "Ok" THEN utf16_data
      ELSE FromUtf16(utf16_data.val, 1)

\* ASCII, the terminator, lead bytes of two, three and four byte
\* encodings, continuation bytes
Mutf8Bytes == {0, 65, 128, 160, 176, 192, 224, 237, 240}

\* every window of up to MaxBytes bytes; well-formed multi-byte strings
\* with their terminator; surrogates, paired and alone
Mutf8Windows ==
  UNION { SeqsOfLen(Mutf8Bytes, k) : k \in 0..MaxBytes }
  \cup { << 224, 160, 128, 0 >>, << 240, 144, 128, 128, 0 >>,
         << 237, 160, 128, 237, 176, 128, 0 >>, << 237, 160, 128, 0 >>,
         << 237, 176, 128, 0 >>, << 65, 192, 128, 65, 0 >>,
         << 65, 224, 160, 0 >>, << 65, 65, 240, 0 >> }

InitUtf ==
  /\ window \in Mutf8Windows
  /\ varint_pads = FALSE
  /\ handlers = Idle
  /\ handler = Idle
  /\ decoded = Idle
  /\ accessor = Idle
  /\ iter = Idle
  /\ members = << >>
  /\ yielded = << >>
  /\ debug_info = Idle
  /\ utf16 = << >>
  /\ IdleOpen
  /\ IdleInsn

\* utf::mutf8_to_str(data)
Mutf8ToStr ==
  /\ decoded = Idle
  /\ decoded' = mutf8_to_str(window)
  /\ UNCHANGED << debug_info, yielded, utf16, varint_pads, window, handlers, handler, accessor, iter,
                  members >>
  /\ UNCHANGED NotDec

NextUtf == Mutf8ToStr

SpecUtf == InitUtf /\ [][NextUtf]_vars

\* C9: for every byte sequence, the strict MUTF-8 conversion mutf8_to_str
\* ends with Ok(string) or a typed error: malformed bytes, such as a
\* multi-byte lead byte whose continuation bytes are missing, and unpaired
\* surrogates produce an error, never a panic or an out-of-bounds read.
C9_StrictMutf8IsTotal ==
  decoded /= Idle => decoded.kind \in {"Ok", "Err"}

(***************************************************************************)
(* Class data.  usize is 64 bits wide.                                     *)
(***************************************************************************)
FieldDefault ==
  [index |-> Big(0), access_flags |-> Big(0), is_static |-> TRUE]

MethodDefault ==
  [index |-> Big(0), access_flags |-> Big(0), code_offset |-> Big(0),
   is_static_or_direct |-> FALSE]

BadEncodedIndex(index, next_index, item_ty) ==
  Err([name |-> "BadEncodedIndex", index |-> index,
       next_index |-> next_index, item_ty |-> item_ty])

\* F applied to the value of x, computed once
Eval(x, F(_)) == CHOOSE y \in { F(v) : v \in { x } } : TRUE

\* Field::read: the outcome, the field and the position afterwards
FieldRead(self, data, pos, pads) ==
  Eval(decode_leb128_off(data, pos, pads), LAMBDA v :
    IF v.kind /= "Ok" THEN [res |-> v, self |-> self, pos |-> pos]
    ELSE IF ~FitsU32(BigAdd(self.index, v.val.value))
      THEN [res |-> BadEncodedIndex(self.index, v.val.value, "Field"),
            self |-> self, pos |-> v.val.pos]
    ELSE Eval(decode_leb128_off(data, v.val.pos, pads), LAMBDA f :
      LET moved == [self EXCEPT !.index = BigAdd(self.index, v.val.value)]
      IN  IF f.kind /= "Ok"
            THEN [res |-> f, self |-> moved, pos |-> v.val.pos]
          ELSE [res |-> Ok(<< >>),
                self |-> [moved EXCEPT !.access_flags = f.val.value],
                pos |-> f.val.pos]))

\* Method::read
MethodRead(self, data, pos, pads) ==
  Eval(decode_leb128_off(data, pos, pads), LAMBDA v :
    IF v.kind /= "Ok" THEN [res |-> v, self |-> self, pos |-> pos]
    ELSE IF ~FitsU32(BigAdd(self.index, v.val.value))
      THEN [res |-> BadEncodedIndex(self.index, v.val.value, "Method"),
            self |-> self, pos |-> v.val.pos]
    ELSE Eval(decode_leb128_off(data, v.val.pos, pads), LAMBDA f :
      LET moved == [self EXCEPT !.index = BigAdd(self.index, v.val.value)]
          flagged == [moved EXCEPT !.access_flags = f.val.value]
      IN  IF f.kind /= "Ok"
            THEN [res |-> f, self |-> moved, pos |-> v.val.pos]
          ELSE Eval(decode_leb128_off(data, f.val.pos, pads), LAMBDA c :
            IF c.kind /= "Ok"
              THEN [res |-> c, self |-> flagged, pos |-> f.val.pos]
            ELSE [res |-> Ok(<< >>),
                  self |-> [flagged EXCEPT !.code_offset = c.val.value],
                  pos |-> c.val.pos])))

\* ClassItemBase::read and next_section of the item type ty
read(ty, self, data, pos, pads) ==
  IF ty = "Field" THEN FieldRead(self, data, pos, pads)
  ELSE MethodRead(self, data, pos, pads)

next_section(ty, self) ==
  IF ty = "Field" THEN [self EXCEPT !.is_static = FALSE]
  ELSE [self EXCEPT !.is_static_or_direct = TRUE]

\* ClassAccessor::from_raw
ClassAccessor(class_data, pads) ==
  Eval(decode_leb128_off(class_data, 0, pads), LAMBDA s :
    IF s.kind /= "Ok" THEN s
    ELSE Eval(decode_leb128_off(class_data, s.val.pos, pads), LAMBDA i :
      IF i.kind /= "Ok" THEN i
      ELSE Eval(decode_leb128_off(class_data, i.val.pos, pads), LAMBDA d :
        IF d.kind /= "Ok" THEN d
        ELSE Eval(decode_leb128_off(class_data, d.val.pos, pads), LAMBDA v :
          IF v.kind /= "Ok" THEN v
          ELSE Ok([class_data |-> class_data,
                   num_static_fields |-> s.val.value,
                   num_instance_fields |-> i.val.value,
                   num_direct_methods |-> d.val.value,
                   num_virtual_methods |-> v.val.value,
                   static_fields_off |-> v.val.pos])))))

num_fields(self) == BigAdd(self.num_instance_fields, self.num_static_fields)

num_methods(self) == BigAdd(self.num_direct_methods, self.num_virtual_methods)

\* what a visitor or a caller of next sees of a member, with the section it
\* was read in and the idx_diff its bytes hold
Member(section, data, off, value, pads) ==
  [section |-> section,
   idx_diff |-> decode_leb128_off(data, off, pads).val.value,
   value |-> value]

RECURSIVE visit_members(_, _, _, _, _, _, _)
\* ClassAccessor::visit_members: the outcome, the item, the offset and the
\* members handed to the visitor
visit_members(self, count, offset, ty, value, section, pads) ==
  IF count = Big(0)
    THEN [res |-> Ok(<< >>), value |-> value, offset |-> offset,
          visited |-> << >>]
  ELSE Eval(read(ty, value, self.class_data, offset, pads), LAMBDA r :
    IF r.res.kind /= "Ok"
      THEN [res |-> r.res, value |-> r.self, offset |-> r.pos,
            visited |-> << >>]
    ELSE Eval(BigSub(count, Big(1)), LAMBDA left :
      Eval(visit_members(self, left, r.pos, ty, r.self, section, pads),
           LAMBDA rest :
        [rest EXCEPT
           !.visited = << Member(section, self.class_data, offset, r.self,
                                 pads) >> \o rest.visited])))

\* ClassAccessor::visit_fields_and_methods with visitors that record
visit_fields_and_methods(self, pads) ==
  IF self.static_fields_off = 0 THEN [res |-> Panic, visited |-> << >>]
  ELSE
  Eval(visit_members(self, self.num_static_fields, self.static_fields_off,
                     "Field", FieldDefault, "static", pads), LAMBDA sf :
    IF sf.res.kind /= "Ok" THEN [res |-> sf.res, visited |-> sf.visited]
    ELSE
  Eval(visit_members(self, self.num_instance_fields, sf.offset, "Field",
                     next_section("Field", sf.value), "instance", pads),
       LAMBDA if :
    IF if.res.kind /= "Ok"
      THEN [res |-> if.res, visited |-> sf.visited \o if.visited]
    ELSE
  Eval(visit_members(self, self.num_direct_methods, if.offset, "Method",
                     MethodDefault, "direct", pads), LAMBDA dm :
    IF dm.res.kind /= "Ok"
      THEN [res |-> dm.res,
            visited |-> sf.visited \o if.visited \o dm.visited]
    ELSE
  Eval(visit_members(self, self.num_virtual_methods, dm.offset, "Method",
                     next_section("Method", dm.value), "virtual", pads),
       LAMBDA vm :
    [res |-> vm.res,
     visited |-> sf.visited \o if.visited \o dm.visited \o vm.visited]))))

\* DataIterator::new
DataIterator(ty, class_data, start_pos, partition_pos, end_pos) ==
  [ty |-> ty,
   class_data |-> class_data,
   value |-> IF ty = "Field" THEN FieldDefault ELSE MethodDefault,
   pos |-> Big(0),
   off |-> start_pos,
   partition_pos |-> partition_pos,
   end_pos |-> end_pos]

get_fields(self) ==
  DataIterator("Field", self.class_data, self.static_fields_off,
               self.num_static_fields, num_fields(self))

get_methods(self, pads) ==
  LET r == visit_members(self, WrapU32(num_fields(self)),
                         self.static_fields_off, "Field", FieldDefault,
                         "static", pads)
  IN  IF r.res.kind /= "Ok" THEN r.res
      ELSE Ok(DataIterator("Method", self.class_data, r.offset,
                           self.num_direct_methods, num_methods(self)))

\* DataIterator::next: the iterator afterwards, the item, and the outcome of
\* read(), which next() itself drops
DataIteratorNext(self, pads) ==
  IF BigLt(self.pos, self.end_pos)
    THEN Eval(read(self.ty,
                   IF self.pos = self.partition_pos
                     THEN next_section(self.ty, self.value) ELSE self.value,
                   self.class_data, self.off, pads), LAMBDA r :
           IF r.res.kind = "Panic"
             THEN [self |-> self, item |-> [op |-> "Panic"], read |-> r.res]
           ELSE IF r.res.kind /= "Ok"
             THEN [self |-> [self EXCEPT !.value = r.self, !.off = r.pos,
                                         !.pos = self.end_pos],
                   item |-> [op |-> "None"], read |-> r.res]
           ELSE [self |-> [self EXCEPT !.value = r.self, !.off = r.pos,
                                       !.pos = BigAdd(self.pos, Big(1))],
                 item |-> [op |-> "Some", value |-> r.self],
                 read |-> r.res])
  ELSE [self |-> self, item |-> [op |-> "None"], read |-> Ok(<< >>)]

\* idx_diff of the members of a section
Diffs == {0, 1, 2}

\* the encoded members of one section: count members of the given diff,
\* access_flags 1 and, for a method, code_off 0
RECURSIVE SectionBytes(_, _, _)
SectionBytes(ty, count, diff) ==
  IF count = 0 THEN << >>
  ELSE (IF ty = "Field" THEN << diff, 1 >> ELSE << diff, 1, 0 >>)
         \o SectionBytes(ty, count - 1, diff)

\* well-formed class data of up to MaxMembers members per section
ClassData ==
  { << s, i, d, v >> \o SectionBytes("Field", s, fd)
      \o SectionBytes("Field", i, fd + 1) \o SectionBytes("Method", d, md)
      \o SectionBytes("Method", v, md + 1)
      : s \in 0..MaxMembers, i \in 0..MaxMembers, d \in 0..MaxMembers,
        v \in 0..MaxMembers, fd \in Diffs, md \in Diffs }

\* idx_diff u32::MAX as a five-byte varint
MaxDiff == << 255, 255, 255, 255, 15 >>

\* class data whose second member has an index past u32::MAX: two members
\* of one section, or the last member of a section and the first of the next
OverflowData ==
  UNION { { << 2, 0, 0, 0 >> \o a \o << 1 >> \o b \o << 1 >>,
            << 1, 1, 0, 0 >> \o a \o << 1 >> \o b \o << 1 >>,
            << 0, 0, 2, 0 >> \o a \o << 1, 0 >> \o b \o << 1, 0 >>,
            << 0, 0, 1, 1 >> \o a \o << 1, 0 >> \o b \o << 1, 0 >>,
            << 1, 0, 1, 0 >> \o a \o << 1 >> \o b \o << 1, 0 >> }
          : a \in { MaxDiff, << 1 >> }, b \in { MaxDiff, << 1 >> } }

\* class data as it is, without its last byte, and with a cut-off varint
\* as its last byte
ClassWindows ==
  ClassData
  \cup OverflowData
  \cup { SubSeq(w, 1, Len(w) - 1) : w \in ClassData }
  \cup { SubSeq(w, 1, Len(w) - 1) \o << 128 >> : w \in ClassData }

InitClass ==
  /\ window \in ClassWindows
  /\ varint_pads \in BOOLEAN
  /\ handlers = Idle
  /\ handler = Idle
  /\ decoded = Idle
  /\ accessor = Idle
  /\ iter = Idle
  /\ members = << >>
  /\ yielded = << >>
  /\ debug_info = Idle
  /\ utf16 = << >>
  /\ IdleOpen
  /\ IdleInsn

\* ClassAccessor::from_raw(data)
FromRaw ==
  /\ accessor = Idle
  /\ accessor' = ClassAccessor(window, varint_pads)
  /\ UNCHANGED << debug_info, yielded, utf16, varint_pads, window, handlers, handler, decoded, iter,
                  members >>
  /\ UNCHANGED NotDec

Unvisited == accessor /= Idle /\ accessor.kind = "Ok" /\ iter = Idle

\* ca.get_fields()
GetFields ==
  /\ Unvisited
  /\ iter' = Ok(get_fields(accessor.val))
  /\ UNCHANGED << debug_info, yielded, utf16, varint_pads, window, handlers, handler, decoded, accessor,
                  members >>
  /\ UNCHANGED NotDec

\* ca.get_methods()
GetMethods ==
  /\ Unvisited
  /\ iter' = get_methods(accessor.val, varint_pads)
  /\ UNCHANGED << debug_info, yielded, utf16, varint_pads, window, handlers, handler, decoded, accessor,
                  members >>
  /\ UNCHANGED NotDec

\* the section a DataIterator is in
IterSection(self) ==
  IF self.ty = "Field"
    THEN IF BigLt(self.pos, self.partition_pos) THEN "static" ELSE "instance"
  ELSE IF BigLt(self.pos, self.partition_pos) THEN "direct" ELSE "virtual"

\* one step of collect() over a DataIterator
IterNext ==
  /\ iter /= Idle
  /\ iter.kind = "Ok"
  /\ LET r == DataIteratorNext(iter.val, varint_pads)
     IN  /\ r.item.op = "Some"
         /\ iter' = Ok(r.self)
         /\ members' = Append(members,
                              Member(IterSection(iter.val), window,
                                     iter.val.off, r.item.value, varint_pads))
  /\ UNCHANGED << debug_info, yielded, utf16, varint_pads, window, handlers, handler, decoded, accessor >>
  /\ UNCHANGED NotDec

\* the step of collect() that ends it
IterEnd ==
  /\ iter /= Idle
  /\ iter.kind = "Ok"
  /\ LET r == DataIteratorNext(iter.val, varint_pads)
     IN  /\ r.item.op /= "Some"
         /\ iter' = IF r.item.op = "Panic" THEN Panic
                    ELSE [kind |-> "Ended", val |-> r.self, item |-> r.item,
                          read |-> r.read]
  /\ UNCHANGED << debug_info, yielded, utf16, varint_pads, window, handlers, handler, decoded, accessor,
                  members >>
  /\ UNCHANGED NotDec

\* ca.visit_fields_and_methods(..)
VisitFieldsAndMethods ==
  /\ Unvisited
  /\ LET r == visit_fields_and_methods(accessor.val, varint_pads)
     IN  /\ iter' = [kind |-> "Visited", res |-> r.res]
         /\ members' = r.visited
  /\ UNCHANGED << debug_info, yielded, utf16, varint_pads, window, handlers, handler, decoded, accessor >>
  /\ UNCHANGED NotDec

NextClass ==
  \/ FromRaw
  \/ GetFields
  \/ GetMethods
  \/ IterNext
  \/ IterEnd
  \/ VisitFieldsAndMethods

SpecClass == InitClass /\ [][NextClass]_vars

\* C10: when iterating class data, the running index is reset to zero at
\* the static-to-instance field boundary and at the direct-to-virtual
\* method boundary: the first member of each section gets an index equal
\* to its own idx_diff, and every later member of a section gets the
\* previous member's index plus its own diff.
C10_IndexResetsAtSectionBoundary ==
  \A k \in 1..Len(members) :
    members[k].value.index =
      IF k = 1 \/ members[k - 1].section /= members[k].section
        THEN members[k].idx_diff
        ELSE BigAdd(members[k - 1].value.index, members[k].idx_diff)

\* the outcome of a walk is the failure BadEncodedIndex
IsBadEncodedIndex(res) ==
  res.kind = "Err" /\ res.err.name = "BadEncodedIndex"

\* C11: when the next idx_diff would carry the running index past u32::MAX,
\* the walk over the class data ends and its caller is handed the failure
\* BadEncodedIndex, and no member with a wrapped-around index is produced
C11_IndexOverflowIsReported ==
  /\ \A k \in 1..Len(members) : FitsU32(members[k].value.index)
  /\ iter /= Idle /\ iter.kind = "Ended" /\ IsBadEncodedIndex(iter.read)
       => iter.item.op = "Err"

\* the number of code units of a format: the leading digit of its name
FormatCodeUnits(fmt) ==
  IF fmt \in {"k10x", "k12x", "k11n", "k11x", "k10t"} THEN 1
  ELSE IF fmt \in {"k20t", "k22x", "k21t", "k21s", "k21h", "k21c", "k23x",
                   "k22b", "k22t", "k22s", "k22c"} THEN 2
  ELSE IF fmt \in {"k32x", "k30t", "k31t", "k31i", "k31c", "k35c", "k3rc"}
    THEN 3
  ELSE IF fmt \in {"k45cc", "k4rcc"} THEN 4
  ELSE IF fmt = "k51l" THEN 5
  ELSE 0

\* C12: for every yielded instruction whose opcode is not NOP, the size
\* stored in the descriptor table is the code-unit count of its format
\* (1, 2, 3, 4 or 5) and size_in_code_units() returns that number
C12_SizeIsCodeUnitsOfFormat ==
  item.op = "Some" =>
    LET inst == SliceFrom(instructions, item.at)
    IN  opcode(inst) /= NOP /\ format(inst) /= "kInvalidFormat" =>
          /\ format_desc(inst).size_in_code_units
               = FormatCodeUnits(format(inst))
          /\ item.size = Big(FormatCodeUnits(format(inst)))

\* the product of two u16 as a wide integer
Mul16(a, b) ==
  BigAdd(BigMul(Big((a \div 256) * b), 256), Big((a % 256) * b))

\* the three 16-bit limbs, lowest first, of element_size * length
ProductLimbs(element_size, length) ==
  LET low == Mul16(element_size, length.lo)
      high == Mul16(element_size, length.hi)
      mid == low.hi + high.lo
  IN  << low.lo, mid % Base, high.hi + mid \div Base >>

\* the three 16-bit limbs, lowest first, of 2 * q for q below 2^47
DoubleLimbs(q) ==
  LET l0 == 2 * q.lo
      l1 == 2 * (q.hi % Base) + l0 \div Base
  IN  << l0 % Base, l1 % Base, 2 * (q.hi \div Base) + l1 \div Base >>

\* limbs + 1
SuccLimbs(l) ==
  IF l[1] < Base - 1 THEN << l[1] + 1, l[2], l[3] >>
  ELSE IF l[2] < Base - 1 THEN << 0, l[2] + 1, l[3] >>
  ELSE << 0, 0, l[3] + 1 >>

\* q = ceil(element_size * length / 2): 2 * q is the product or the product
\* plus one
IsCeilHalfProduct(q, element_size, length) ==
  LET product == ProductLimbs(element_size, length)
  IN  DoubleLimbs(q) = (IF product[1] % 2 = 0 THEN product
                        ELSE SuccLimbs(product))

\* C13: a yielded NOP whose first code unit is a payload signature and whose
\* header lies in the stream has size 4 + size * 2 (packed-switch, 0x0100),
\* 2 + size * 4 (sparse-switch, 0x0200) or 4 + ceil(element_size * length / 2)
\* (fill-array-data, 0x0300), size / element_size being code unit 1 and
\* length the 32-bit value of code units 2 and 3
C13_PayloadSizeFromHeader ==
  item.op = "Some" =>
    LET inst == SliceFrom(instructions, item.at)
        sig == At(inst, 0)
    IN  /\ sig = PackedSwitchSignature /\ Len(inst) >= 2
             => item.size = Big(4 + At(inst, 1) * 2)
        /\ sig = SparseSwitchSignature /\ Len(inst) >= 2
             => item.size = Big(2 + At(inst, 1) * 4)
        /\ sig = ArrayDataSignature /\ Len(inst) >= 4
             => /\ BigLe(Big(4), item.size)
                /\ IsCeilHalfProduct(
                     BigSub(item.size, Big(4)), At(inst, 1),
                     [hi |-> At(inst, 3), lo |-> At(inst, 2)])

\* a packed-switch payload of 3 targets was yielded with size 10
C13_Witness ==
  /\ item.op = "Some"
  /\ item.at = 0
  /\ Len(instructions) >= 2
  /\ instructions[1] = PackedSwitchSignature
  /\ instructions[2] = 3
  /\ item.size = Big(10)

(***************************************************************************)
(* UTF-16 to MUTF-8.                                                       *)
(***************************************************************************)
\* Options::new()
Options_new == [short_zero |-> FALSE, replace_bad_surrogates |-> FALSE]

is_surrogate(ch) == ch \div 2048 = 27

is_surrogate_lead(ch) == (ch \div 1024) % 2 = 0

\* ((lead as u32) << 10) + (trail as u32) - OFFSET, OFFSET being
\* (0xd800 << 10) + 0xdc00 - 0x10000
get_supplementary(lead, trail) == (lead - 55296) * 1024 + trail + 9216

RECURSIVE convert_utf16_to_mutf8(_, _, _)
\* the loop of convert_utf16_to_mutf8 from in_idx on: the bytes handed to
\* append; indexing past the end of utf16_in panics
convert_utf16_to_mutf8(utf16_in, options, in_idx) ==
  IF in_idx >= Len(utf16_in) THEN Ok(<< >>)
  ELSE
    LET ch == At(utf16_in, in_idx)
        last == in_idx + 1 = Len(utf16_in)
        paired == is_surrogate(ch)
                    \/ (is_lead(ch) /\ ~last
                          /\ is_trail(At(utf16_in, in_idx + 1)))
        replaced == options.replace_bad_surrogates
                      /\ ~is_surrogate_lead(ch) /\ ~last
                      /\ ~is_trail(At(utf16_in, in_idx + 1))
        code_point == get_supplementary(ch, At(utf16_in, in_idx + 1))
        one == ch < 128 /\ (options.short_zero \/ ch /= 0)
        four == ~one /\ ch >= 2048 /\ paired /\ ~replaced
        bytes ==
          IF one THEN << ch >>
          ELSE IF ch < 2048 THEN << (ch \div 64) + 192, (ch % 64) + 128 >>
          ELSE IF paired
            THEN IF replaced THEN << 63 >>
                 ELSE << ((code_point \div 262144) + 240) % 256,
                         ((code_point \div 4096) % 64) + 128,
                         ((code_point \div 64) % 64) + 128,
                         (code_point % 64) + 128 >>
          ELSE << (ch \div 4096) + 224, ((ch \div 64) % 64) + 128,
                  (ch % 64) + 128 >>
    IN  IF four /\ last THEN Panic
        ELSE LET rest == convert_utf16_to_mutf8(
                           utf16_in, options, in_idx + (IF four THEN 2 ELSE 1))
             IN  IF rest.kind /= "Ok" THEN rest ELSE Ok(bytes \o rest.val)

\* utf16_to_mutf8: a first pass counts the bytes; an all-ASCII input is
\* copied, any other is pushed onto a vector of mutf8_len + 1 zero bytes
utf16_to_mutf8(utf16_in, options) ==
  LET pass == convert_utf16_to_mutf8(utf16_in, options, 0)
      out_len == Len(pass.val)
  IN  IF pass.kind /= "Ok" THEN pass
      ELSE IF out_len = Len(utf16_in)
        THEN Ok([k \in 1..Len(utf16_in) |-> utf16_in[k] % 256] \o << 0 >>)
      ELSE Ok(Zeros(out_len + 1) \o pass.val \o << 0 >>)

\* str::encode_utf16 of the chars of a string
RECURSIVE encode_utf16(_)
encode_utf16(str) ==
  IF Len(str) = 0 THEN << >>
  ELSE (IF str[1].plane = 0 THEN << str[1].low >>
        ELSE << 55296 + (str[1].plane - 1) * 64 + (str[1].low \div 1024),
                56320 + (str[1].low % 1024) >>)
         \o encode_utf16(Tail(str))

MaxChars == 3

\* chars: NUL, ASCII, two-byte and three-byte BMP chars, supplementary
\* code points
SampleChars ==
  { [plane |-> 0, low |-> c] : c \in {0, 65, 127, 128, 233, 2047, 2048, 8364,
                                      65535} }
  \cup { [plane |-> 1, low |-> 0], [plane |-> 1, low |-> 62976],
         [plane |-> 16, low |-> 65535] }

\* the strings of up to MaxChars chars
Strings == UNION { SeqsOfLen(SampleChars, k) : k \in 0..MaxChars }

InitStr ==
  /\ utf16 \in { encode_utf16(str) : str \in Strings }
  /\ window = << >>
  /\ varint_pads = FALSE
  /\ handlers = Idle
  /\ handler = Idle
  /\ decoded = Idle
  /\ accessor = Idle
  /\ iter = Idle
  /\ members = << >>
  /\ yielded = << >>
  /\ debug_info = Idle
  /\ IdleOpen
  /\ IdleInsn

\* utf::str_to_mutf8(&name), name.encode_utf16() being utf16: the bytes, or
\* the panic
StrToMutf8 ==
  /\ window = << >>
  /\ decoded = Idle
  /\ LET r == utf16_to_mutf8(utf16, Options_new)
     IN  IF r.kind = "Ok" THEN window' = r.val /\ decoded' = decoded
         ELSE window' = window /\ decoded' = r
  /\ UNCHANGED << debug_info, yielded, utf16, varint_pads, handlers, handler, accessor,
                  iter, members >>
  /\ UNCHANGED NotDec

\* utf::mutf8_to_str on the bytes the encoder made
StrFromMutf8 ==
  /\ window /= << >>
  /\ Mutf8ToStr

NextStr == StrToMutf8 \/ StrFromMutf8

SpecStr == InitStr /\ [][NextStr]_vars

\* C14: for every UTF-16 sequence without unpaired surrogates, decoding its
\* MUTF-8 encoding gives back exactly that sequence; the encoding of U+0000
\* followed by 'A' is the four bytes C0 80 41 00
C14_Mutf8RoundTrip ==
  /\ decoded /= Idle => decoded = FromUtf16(utf16, 1)
  /\ utf16 = << 0, 65 >> /\ window /= << >>
       => window = << 192, 128, 65, 0 >>

\* C15: for a catch-handler list whose leading SLEB128 is n, the iterator
\* yields exactly n typed handlers and no catch-all if n > 0, and exactly |n|
\* typed handlers followed by one catch-all handler of type_idx u16::MAX if
\* n <= 0; then it ends, and every further call of next yields nothing
C15_HandlerCountFollowsSize ==
  LET size == decode_sleb128(window, 0)
      n == size.val.value
  IN  handlers /= Idle /\ size.kind = "Ok" =>
        /\ handlers.kind = "Ok"
        /\ handler /= Idle => handler.op /= "Panic"
        /\ \A k \in 1..Len(yielded) :
             IF (n > 0 /\ k <= n) \/ (n <= 0 /\ -k >= n)
               THEN ~yielded[k].is_catch_all
               ELSE /\ n <= 0 /\ 1 - k = n
                    /\ yielded[k].is_catch_all
                    /\ yielded[k].type_idx = U16_MAX
        /\ handler /= Idle /\ handler.op = "None" =>
             /\ Len(yielded) = IF n > 0 THEN n ELSE 1 - n
             /\ CatchHandlerNext(handlers.val).item.op = "None"

\* the iterator is polled until it returns None
FairSpecInsn == SpecInsn /\ WF_vars(NextInsn)

\* what holds of the position and the last item in every state
C16_Positions ==
  LET n == Big(Len(instructions))
  IN  /\ item = Idle => pc = Big(0)
      /\ item /= Idle /\ item.op = "Some" =>
           /\ item.at < Len(instructions)
           /\ BigLe(Big(1), item.size)
           /\ pc = BigAdd(Big(item.at), item.size)
      /\ item /= Idle /\ item.op = "None" => BigLe(n, pc)
      /\ instructions = << >> => item = Idle \/ item.op = "None"

\* what holds of every call of next
C16_Step ==
  LET n == Big(Len(instructions))
  IN  /\ BigLt(pc, n) =>
           item'.op = "Some" /\ Big(item'.at) = pc /\ BigLt(pc, pc')
      /\ ~BigLt(pc, n) => item'.op = "None" /\ pc' = pc
      /\ item /= Idle /\ item.op = "Some" /\ item'.op = "Some" =>
           item'.at > item.at

\* C16: over a stream of n code units the iterator starts at pc = 0, yields
\* an instruction only while pc < n, advances pc by the size of that
\* instruction, which is at least 1, and returns None as soon as pc >= n;
\* the yielded positions strictly increase, nothing is yielded on an empty
\* stream, and the iteration ends
C16_IterationTerminates ==
  /\ []C16_Positions
  /\ [][C16_Step]_vars
  /\ <>(item /= Idle /\ item.op = "None")

\* the iterator ended after a one-unit instruction and at least one more
C16_Witness ==
  /\ item /= Idle
  /\ item.op = "None"
  /\ Len(instructions) >= 2
  /\ format(instructions) = "k12x"
  /\ pc = Big(Len(instructions))

(***************************************************************************)
(* The operand accessors applied to the instruction at the start of a      *)
(* stream.                                                                 *)
(***************************************************************************)
\* vreg::has_a, has_b, has_wide_b, has_c, has_h, has_var_args,
\* has_args_range: whether the format has the operand
has_operand(acc, f) ==
  CASE acc = "A" -> f /= "kInvalidFormat"
    [] acc = "B" ->
         f \in {"k11n", "k12x", "k21c", "k21h", "k21s", "k21t", "k22b", "k22c",
                "k22s", "k22t", "k22x", "k23x", "k31c", "k31i", "k31t", "k32x",
                "k35c", "k3rc", "k45cc", "k4rcc", "k51l"}
    [] acc = "wide_b" -> f = "k51l"
    [] acc = "C" ->
         f \in {"k22b", "k22c", "k22s", "k22t", "k23x", "k35c", "k3rc", "k45cc",
                "k4rcc"}
    [] acc = "H" -> f \in {"k45cc", "k4rcc"}
    [] acc = "var_args" -> f \in {"k35c", "k45cc"}
    [] acc = "args_range" -> f \in {"k3rc", "k4rcc"}

Accessors == {"A", "B", "C", "H", "var_args", "args_range", "wide_b"}

InitVreg ==
  /\ instructions \in Streams \ { << >> }
  /\ pc = Big(0)
  /\ item = Idle
  /\ operand = Idle
  /\ IdleOpen
  /\ IdleDec

\* vreg::A(&inst), ..., vreg::wide_b(&inst) for inst = Instruction::at(..)
Operand ==
  /\ operand = Idle
  /\ \E acc \in Accessors :
       \E debug_assertions \in IF acc = "wide_b" THEN BOOLEAN ELSE {FALSE} :
         operand' =
           [op |-> acc, debug_assertions |-> debug_assertions,
            res |-> CASE acc = "A" -> A(instructions)
                      [] acc = "B" -> B(instructions)
                      [] acc = "C" -> C(instructions)
                      [] acc = "H" -> H(instructions)
                      [] acc = "var_args" -> var_args(instructions)
                      [] acc = "args_range" -> args_range(instructions)
                      [] acc = "wide_b" ->
                           wide_b(instructions, debug_assertions)]
  /\ UNCHANGED << instructions, pc, item >>
  /\ UNCHANGED NotInsn

NextVreg == Operand

SpecVreg == InitVreg /\ [][NextVreg]_vars

\* C17: each of the seven operand accessors A, B, C, H, var_args,
\* args_range and wide_b, applied to an instruction whose format does not
\* have that operand, returns OperandAccessError, never a value or a panic
C17_MissingOperandIsAnError ==
  operand /= Idle /\ ~has_operand(operand.op, format(instructions))
    => operand.res = OperandAccessError

\* C18: the index-of accessor is the inverse of the by-index accessor,
\* X_idx(get_X(i)) = i for every id table X and every i below its length, and
\* it fails with UnknownObjectRef on a reference that does not point at an
\* entry of the table, instead of returning an index at or beyond the length
C18_IdxInvertsGet ==
  probe.op = "idx" =>
    IF probe.arg.by = "get" THEN probe.res = Ok(probe.arg.idx)
    ELSE probe.res.kind = "Err" /\ probe.res.err.name = "UnknownObjectRef"

\* C19 as stated: for a 3rc or 4rcc instruction with first register first
\* and register count count, args_range returns the inclusive range
\* [first, first + count - 1] whenever first + count does not exceed
\* u16::MAX, and InvalidArgRange when it does
C19_RangeUnlessPastMax ==
  operand /= Idle /\ operand.op = "args_range"
    /\ format(instructions) \in {"k3rc", "k4rcc"} /\ Len(instructions) >= 3
    => LET first == At(instructions, 2)
           count == At(instructions, 0) \div 256
       IN  operand.res =
             IF first + count <= U16_MAX
               THEN Ok([start |-> first, end |-> first + count - 1])
               ELSE Err("InvalidArgRange")

\* C19 amended: args_range returns the inclusive range
\* [first, first + count - 1] whenever count is at least 1 and first + count
\* does not exceed u16::MAX, and InvalidArgRange when count is 0 or
\* first + count exceeds u16::MAX
C19_RangeOfAtLeastOne ==
  operand /= Idle /\ operand.op = "args_range"
    /\ format(instructions) \in {"k3rc", "k4rcc"} /\ Len(instructions) >= 3
    => LET first == At(instructions, 2)
           count == At(instructions, 0) \div 256
       IN  operand.res =
             IF count >= 1 /\ first + count <= U16_MAX
               THEN Ok([start |-> first, end |-> first + count - 1])
               ELSE Err("InvalidArgRange")

\* args_range returned the range that ends at the last register u16::MAX - 1
C19_Witness ==
  /\ operand /= Idle
  /\ operand.op = "args_range"
  /\ format(instructions) = "k3rc"
  /\ operand.res.kind = "Ok"
  /\ operand.res.val.start < operand.res.val.end
  /\ operand.res.val.end = U16_MAX - 1

\* what C20 says of the instruction decoded from the stream: its name is
\* "const/4", its format k11n, its size 1, A is 0 and B is 3
IsConst4_0_3 ==
  /\ name(instructions) = "const/4"
  /\ format(instructions) = "k11n"
  /\ size_in_code_units(instructions) = Big(1)
  /\ operand.op = "A" => operand.res = Ok(0)
  /\ operand.op = "B" => operand.res = Ok(3)

\* C20 as stated: decoding the one-element code-unit stream [0x1230] yields
\* an instruction with opcode name "const/4", format k11n, A == 0, B == 3 and
\* size_in_code_units == 1
C20_Decode1230 ==
  instructions = << 4656 >> /\ operand /= Idle => IsConst4_0_3

\* C20 amended: it is the code unit 0x3012, with the opcode 0x12 in its low
\* byte, that decodes to "const/4", format k11n, A == 0, B == 3 and
\* size_in_code_units == 1
C20_Decode3012 ==
  instructions = << 12306 >> /\ operand /= Idle => IsConst4_0_3

\* B was read from the code unit 0x3012
C20_Witness ==
  /\ instructions = << 12306 >>
  /\ operand /= Idle
  /\ operand.op = "B"
  /\ operand.res = Ok(3)

(***************************************************************************)
(* The catch-handler list of one typed handler and a catch-all.            *)
(***************************************************************************)
\* the handlers {type_idx = 5, address = 0} and then the catch-all
\* {type_idx = 0xFFFF, address = 7, is_catch_all = true}, and nothing else
YieldsTyped5ThenCatchAll7 ==
  /\ handlers /= Idle => handlers.kind = "Ok"
  /\ handler /= Idle => handler.op /= "Panic"
  /\ Len(yielded) <= 2
  /\ Len(yielded) >= 1 =>
       yielded[1] = [op |-> "Some", is_catch_all |-> FALSE,
                     type_idx |-> 5, address |-> Big(0)]
  /\ Len(yielded) >= 2 =>
       yielded[2] = [op |-> "Some", is_catch_all |-> TRUE,
                     type_idx |-> 65535, address |-> Big(7)]
  /\ handler /= Idle /\ handler.op = "None" => Len(yielded) = 2

\* C21: iterating the encoded catch-handler list given by the bytes
\* FF 05 00 06 02 07 yields first a typed handler with type_idx = 5 and
\* address = 0, and then a catch-all handler with type_idx = 0xFFFF,
\* address = 7 and is_catch_all = true
C21_ListFF05 ==
  window = << 255, 5, 0, 6, 2, 7 >> => YieldsTyped5ThenCatchAll7

\* C21 (amended): the list given by the bytes 7F 05 00 07 yields first a
\* typed handler with type_idx = 5 and address = 0, then a catch-all handler
\* with type_idx = 0xFFFF, address = 7 and is_catch_all = true, then ends
C21_List7F05 ==
  window = << 127, 5, 0, 7 >> => YieldsTyped5ThenCatchAll7

C21_Witness ==
  /\ window = << 127, 5, 0, 7 >>
  /\ Len(yielded) = 2
  /\ yielded[2].is_catch_all
  /\ handler /= Idle /\ handler.op = "None"

(***************************************************************************)
(* The layout of a code item.                                              *)
(***************************************************************************)
\* insns_off + 2 * insns_size rounded up to the next multiple of 4, for the
\* code item at the given offset
ExpectedTriesOff(code_item_off, insns_size) ==
  ((code_item_off + TypeSize["CodeItem"] + 2 * insns_size + 3) \div 4) * 4

\* C22: for a code item with tries_size > 0, the absolute file offset at
\* which the try table is read equals insns_off + 2 * insns_size rounded up
\* to the next multiple of 4 (insns_off = code-item offset +
\* sizeof(CodeItem)), it is 4-aligned, the catch-handler list starts at that
\* offset + tries_size * sizeof(TryItem), and every routine that locates the
\* try table (get_tries_abs_off, get_try_item) uses this same offset
C22_TriesOffIsAlignedEndOfInsns ==
  probe.op = "get_try_item" /\ probe.tries_size > 0 =>
    LET expected == ExpectedTriesOff(probe.arg, probe.ca.insns.len)
        table_in_file ==
          expected + probe.tries_size * TypeSize["TryItem"] <= Len(container.bytes)
    IN  /\ expected % 4 = 0
        /\ probe.tries_abs_off = Some(expected)
        /\ probe.catch_handler_data_abs_off
             = Some(expected + probe.tries_size * TypeSize["TryItem"])
        /\ probe.res.kind = "Ok" => probe.res.val.off = expected
        /\ table_in_file /\ expected < Len(container.bytes)
             => probe.res.kind = "Ok"

(***************************************************************************)
(* The payload of a primitive or reference encoded value.                  *)
(***************************************************************************)
\* size_of(T) of the primitive encoded-value types
PrimitiveSize ==
  [Byte |-> 1, Short |-> 2, Char |-> 2, Int |-> 4, Long |-> 8, Float |-> 4,
   Double |-> 8]

\* C23: for a primitive encoded value of type T the decoder accepts every
\* value_arg with value_arg + 1 in 1..=size_of(T), the full width included,
\* provided those value_arg + 1 payload bytes lie inside the byte window (up
\* to and including its last byte), and consumes exactly value_arg + 1
\* payload bytes; a value_arg with value_arg + 1 > size_of(T) is rejected with
\* BadEncodedValueSize
C23_PayloadWidthUpToSizeOfT ==
  decoded /= Idle /\ window /= << >> /\ is_valid(window[1] % 32)
    /\ EncodedValueTypeFrom(window[1] % 32) \in DOMAIN PrimitiveSize =>
    LET ty == EncodedValueTypeFrom(window[1] % 32)
        width == (window[1] \div 32) + 1
        raw == ScalarPayload(ty, window, window[1] \div 32, window[1] % 32, 1)
    IN  IF width > PrimitiveSize[ty]
          THEN /\ decoded.kind = "Err"
               /\ decoded.err.name = "BadEncodedValueSize"
        ELSE 1 + width <= Len(window) =>
               /\ decoded.kind = "Ok"
               /\ raw.val.off = 1 + width

RECURSIVE LittleEndian(_)
\* the number whose base-256 digits are b, least significant first
LittleEndian(b) ==
  IF Len(b) = 0 THEN 0 ELSE b[1] + 256 * LittleEndian(Tail(b))

ReferenceKinds ==
  {"String", "Type", "Field", "Method", "Enum", "MethodType", "MethodHandle"}

\* C24: for the reference kinds of encoded value (String, Type, Field,
\* Method, Enum, MethodType, MethodHandle) the decoded index equals the
\* unsigned little-endian integer formed by the value_arg + 1 payload bytes
\* (first payload byte least significant), zero-extended to 32 bits
C24_ReferenceIndexIsLittleEndian ==
  decoded /= Idle /\ decoded.kind = "Ok" /\ decoded.val.type \in ReferenceKinds =>
    decoded.val.value
      = LittleEndian(Slice(window, 1, 1 + (window[1] \div 32) + 1))

(***************************************************************************)
(* Debug info.  The stream is a byte slice that runs to the end of the     *)
(* file; an i32 produced by the ULEB128p1 decoder is kept as the u32 it is *)
(* cast to by every caller.                                                *)
(***************************************************************************)
\* a += b on u32 registers
AddU32(a, b, checked) ==
  LET sum == BigAdd(a, b)
  IN  IF FitsU32(sum) THEN Ok(sum)
      ELSE IF checked THEN Panic ELSE Ok(WrapU32(sum))

\* leb128::decode_leb128p1_off: `result as i32 - 1` overflows for 2^31
decode_leb128p1_off(data_in, ptr_pos, pads, checked) ==
  IF ptr_pos > Len(data_in) THEN Panic
  ELSE LET r == decode_leb128(SliceFrom(data_in, ptr_pos), pads)
       IN  IF r.kind /= "Ok" THEN r
           ELSE IF r.val.value = [hi |-> 32768, lo |-> 0] /\ checked THEN Panic
           ELSE Ok([value |-> WrapU32(BigAdd(r.val.value, U32_MAX)),
                    pos |-> ptr_pos + r.val.size])

\* the opcodes of the state machine; DBG_LINE_BASE is (-4 as i8) as u8
code ==
  [DBG_END_SEQUENCE |-> 0, DBG_ADVANCE_PC |-> 1, DBG_ADVANCE_LINE |-> 2,
   DBG_START_LOCAL |-> 3, DBG_START_LOCAL_EXTENDED |-> 4, DBG_END_LOCAL |-> 5,
   DBG_RESTART_LOCAL |-> 6, DBG_SET_PROLOGUE_END |-> 7,
   DBG_SET_EPILOGUE_BEGIN |-> 8, DBG_SET_FILE |-> 9, DBG_FIRST_SPECIAL |-> 10,
   DBG_LINE_BASE |-> 252, DBG_LINE_RANGE |-> 15]

PositionInfo_new ==
  [address |-> Big(0), line |-> Big(0), file |-> "This",
   prologue_end |-> FALSE, epilogue_begin |-> FALSE]

RECURSIVE NamesFrom(_, _, _, _, _)
\* for _ in 0..size { visitor(decode_leb128p1_off(..)? as u32) }: the
\* indices handed to the visitor, the offset reached and how the loop ended
NamesFrom(ptr, offset, size, pads, checked) ==
  IF size = Big(0) THEN [kind |-> "Ok", names |-> << >>, pos |-> offset]
  ELSE LET index == decode_leb128p1_off(ptr, offset, pads, checked)
       IN  IF index.kind /= "Ok"
             THEN [kind |-> index.kind, names |-> << >>, pos |-> offset]
           ELSE LET rest == NamesFrom(ptr, index.val.pos,
                                      BigSub(size, Big(1)), pads, checked)
                IN  [rest EXCEPT !.names = << index.val.value >> \o @]

\* CodeItemDebugInfoAccessor::decode_parameter_names(visitor, &mut offset)
decode_parameter_names(ptr, offset, pads, checked) ==
  LET line == decode_leb128_off(ptr, offset, pads)
  IN  IF line.kind /= "Ok"
        THEN [kind |-> line.kind, names |-> << >>, pos |-> offset]
      ELSE LET size == decode_leb128_off(ptr, line.val.pos, pads)
           IN  IF size.kind /= "Ok"
                 THEN [kind |-> size.kind, names |-> << >>, pos |-> line.val.pos]
               ELSE LET r == NamesFrom(ptr, size.val.pos, size.val.value,
                                       pads, checked)
                    IN  [kind |-> r.kind, names |-> r.names, pos |-> r.pos,
                         line |-> line.val.value]

\* DebugInfoParameterNamesIterator::new(ptr, offset)
DebugInfoParameterNamesIterator(ptr, offset, pads) ==
  LET line == decode_leb128_off(ptr, offset, pads)
  IN  IF line.kind /= "Ok" THEN line
      ELSE LET size == decode_leb128_off(ptr, line.val.pos, pads)
           IN  IF size.kind /= "Ok" THEN size
               ELSE Ok([ptr |-> ptr, offset |-> offset,
                        size |-> size.val.value, idx |-> 0])

\* Iterator::next of the parameter names: the iterator afterwards and the
\* item
ParameterNamesNext(self, pads, checked) ==
  IF BigLe(self.size, Big(self.idx))
    THEN [self |-> self, item |-> [op |-> "None"]]
  ELSE LET v == decode_leb128p1_off(self.ptr, self.offset, pads, checked)
           advanced == [self EXCEPT !.idx = self.idx + 1]
       IN  IF v.kind = "Ok"
             THEN [self |-> [advanced EXCEPT !.offset = v.val.pos],
                   item |-> [op |-> "Some", value |-> v.val.value]]
           ELSE IF v.kind = "Err"
             THEN [self |-> advanced, item |-> [op |-> "None"]]
           ELSE [self |-> advanced, item |-> [op |-> "Panic"]]

RECURSIVE SkipOperands(_, _, _, _, _)
\* the operands of an opcode that only skips them: p1[k] says whether
\* operand k is a ULEB128p1; the offset after them, or the failure
SkipOperands(ptr, offset, p1, pads, checked) ==
  IF p1 = << >> THEN Ok(offset)
  ELSE LET r == IF p1[1] THEN decode_leb128p1_off(ptr, offset, pads, checked)
                ELSE decode_leb128_off(ptr, offset, pads)
       IN  IF r.kind /= "Ok" THEN r
           ELSE SkipOperands(ptr, r.val.pos, Tail(p1), pads, checked)

\* one turn of the loop of decode_position_info
PositionInfoStep(ptr, st, pads, checked) ==
  IF st.offset >= Len(ptr) THEN [st EXCEPT !.kind = "Panic"]
  ELSE
    LET op == At(ptr, st.offset)
        offset == st.offset + 1
        entry == st.entry
        Fail(r) == [st EXCEPT !.kind = r.kind, !.offset = offset]
        Skip(p1) ==
          LET r == SkipOperands(ptr, offset, p1, pads, checked)
          IN  IF r.kind /= "Ok" THEN Fail(r) ELSE [st EXCEPT !.offset = r.val]
    IN  CASE op = code.DBG_END_SEQUENCE ->
               [st EXCEPT !.kind = "Ok", !.offset = offset]
          [] op = code.DBG_ADVANCE_PC ->
               LET r == decode_leb128_off(ptr, offset, pads)
                   sum == AddU32(entry.address, r.val.value, checked)
               IN  IF r.kind /= "Ok" THEN Fail(r)
                   ELSE IF sum.kind /= "Ok"
                     THEN [st EXCEPT !.kind = "Panic", !.offset = r.val.pos]
                   ELSE [st EXCEPT !.entry.address = sum.val,
                                   !.offset = r.val.pos]
          [] op = code.DBG_ADVANCE_LINE ->
               LET r == decode_leb128_off(ptr, offset, pads)
                   sum == AddU32(entry.line, r.val.value, checked)
               IN  IF r.kind /= "Ok" THEN Fail(r)
                   ELSE IF sum.kind /= "Ok"
                     THEN [st EXCEPT !.kind = "Panic", !.offset = r.val.pos]
                   ELSE [st EXCEPT !.entry.line = sum.val, !.offset = r.val.pos]
          [] op = code.DBG_START_LOCAL -> Skip(<< FALSE, TRUE, TRUE >>)
          [] op = code.DBG_START_LOCAL_EXTENDED ->
               Skip(<< FALSE, TRUE, TRUE, TRUE >>)
          [] op \in {code.DBG_END_LOCAL, code.DBG_RESTART_LOCAL} ->
               Skip(<< FALSE >>)
          [] op = code.DBG_SET_PROLOGUE_END ->
               [st EXCEPT !.entry.prologue_end = TRUE, !.offset = offset]
          [] op = code.DBG_SET_EPILOGUE_BEGIN ->
               [st EXCEPT !.entry.epilogue_begin = TRUE, !.offset = offset]
          [] op = code.DBG_SET_FILE ->
               LET file == decode_leb128p1_off(ptr, offset, pads, checked)
               IN  IF file.kind /= "Ok" THEN Fail(file)
                   ELSE [st EXCEPT !.entry.file = file.val.value,
                                   !.offset = file.val.pos]
          [] OTHER ->
               LET adjusted_opcode == op - code.DBG_FIRST_SPECIAL
                   address == AddU32(entry.address,
                                     Big(adjusted_opcode
                                           \div code.DBG_LINE_RANGE),
                                     checked)
                   \* a u8 sum
                   delta == code.DBG_LINE_BASE
                              + (adjusted_opcode % code.DBG_LINE_RANGE)
                   line == AddU32(entry.line, Big(delta % 256), checked)
               IN  IF address.kind /= "Ok" \/ (delta > 255 /\ checked)
                        \/ line.kind /= "Ok"
                     THEN [st EXCEPT !.kind = "Panic", !.offset = offset]
                   ELSE LET moved == [entry EXCEPT !.address = address.val,
                                                   !.line = line.val]
                        IN  [st EXCEPT
                               !.entry = [moved EXCEPT !.epilogue_begin = FALSE,
                                                       !.prologue_end = FALSE],
                               !.offset = offset,
                               !.visited = Append(@, moved)]

MaxOps == 3

MaxNames == 2

\* bytes of the state machine: the opcodes without operands, the two
\* advance opcodes, special opcodes, operands
DebugBytes == {0, 1, 2, 7, 8, 10, 25, 127, 128}

\* the largest ULEB128
MaxLeb == << 255, 255, 255, 255, 15 >>

\* streams for the state machine: a starting line, no or one parameter
\* name, and then bytes; every special opcode; the opcodes that skip
\* their operands
PositionStreams ==
  { line \o names \o ops
      : line \in { << 5 >>, MaxLeb }, names \in { << 0 >>, << 1, 3 >> },
        ops \in UNION { SeqsOfLen(DebugBytes, k) : k \in 0..MaxOps } }
  \cup { line \o << 0, op, 0 >>
           : line \in { << 0 >>, << 5 >>, MaxLeb }, op \in 10..255 }
  \cup { << 5, 0, op, 1, 1, 1, 1, 10, 0 >> : op \in 3..9 }

\* streams for the parameter names: a starting line, a count, names (as
\* many as the count says, or fewer) and one more byte or none
NameStreams ==
  { line \o << count >> \o names \o rest
      : line \in { << 0 >>, << 5 >>, << 129, 1 >> }, count \in 0..(MaxNames + 1),
        names \in UNION { SeqsOfLen({0, 1, 6, 128}, k) : k \in 0..MaxNames },
        rest \in { << >>, << 0 >> } }

InitDebug ==
  /\ window \in PositionStreams \cup NameStreams
  /\ varint_pads \in BOOLEAN
  /\ overflow_checks \in BOOLEAN
  /\ handlers = Idle
  /\ handler = Idle
  /\ decoded = Idle
  /\ accessor = Idle
  /\ iter = Idle
  /\ members = << >>
  /\ yielded = << >>
  /\ utf16 = << >>
  /\ debug_info = Idle
  /\ IdleFile
  /\ IdleInsn

\* accessor.decode_position_info(pos_visitor), up to the loop
DecodePositionInfo ==
  /\ debug_info = Idle
  /\ iter = Idle /\ decoded = Idle
  /\ LET r == decode_parameter_names(window, 0, varint_pads, overflow_checks)
     IN  debug_info' =
           [kind |-> IF r.kind = "Ok" THEN "Running" ELSE r.kind,
            entry |-> IF r.kind = "Ok"
                        THEN [PositionInfo_new EXCEPT !.line = r.line]
                      ELSE PositionInfo_new,
            offset |-> r.pos,
            visited |-> << >>]
  /\ UNCHANGED << yielded, utf16, varint_pads, window, handlers, handler,
                  decoded, accessor, iter, members >>
  /\ UNCHANGED NotDec

\* one opcode of decode_position_info
DecodePositionInfoStep ==
  /\ debug_info /= Idle
  /\ debug_info.kind = "Running"
  /\ debug_info' = PositionInfoStep(window, debug_info, varint_pads,
                                    overflow_checks)
  /\ UNCHANGED << yielded, utf16, varint_pads, window, handlers, handler,
                  decoded, accessor, iter, members >>
  /\ UNCHANGED NotDec

\* accessor.parameter_names()
ParameterNames ==
  /\ debug_info = Idle
  /\ iter = Idle
  /\ iter' = [res |-> DebugInfoParameterNamesIterator(window, 0, varint_pads),
              item |-> Idle]
  /\ UNCHANGED << debug_info, yielded, utf16, varint_pads, window, handlers,
                  handler, decoded, accessor, members >>
  /\ UNCHANGED NotDec

\* one step of `for name in accessor.parameter_names()?`
ParameterNamesIteratorNext ==
  /\ iter /= Idle
  /\ "res" \in DOMAIN iter
  /\ iter.res.kind = "Ok"
  /\ iter.item = Idle \/ iter.item.op = "Some"
  /\ LET r == ParameterNamesNext(iter.res.val, varint_pads, overflow_checks)
     IN  /\ iter' = [res |-> Ok(r.self), item |-> r.item]
         /\ yielded' = IF r.item.op = "Some" THEN Append(yielded, r.item.value)
                       ELSE yielded
  /\ UNCHANGED << debug_info, utf16, varint_pads, window, handlers, handler,
                  decoded, accessor, members >>
  /\ UNCHANGED NotDec

\* accessor.visit_parameter_names(visitor): the result and what the visitor
\* was called with
VisitParameterNames ==
  /\ debug_info = Idle
  /\ decoded = Idle
  /\ LET r == decode_parameter_names(window, 0, varint_pads, overflow_checks)
     IN  decoded' = [kind |-> r.kind, names |-> r.names]
  /\ UNCHANGED << debug_info, yielded, utf16, varint_pads, window, handlers,
                  handler, accessor, iter, members >>
  /\ UNCHANGED NotDec

NextDebug ==
  \/ DecodePositionInfo
  \/ DecodePositionInfoStep
  \/ ParameterNames
  \/ ParameterNamesIteratorNext
  \/ VisitParameterNames

SpecDebug == InitDebug /\ [][NextDebug]_vars

(***************************************************************************)
(* Properties of the debug-info decoder.                                   *)
(***************************************************************************)
\* the state machine is about to read the opcode op
AtOpcode(op) ==
  /\ debug_info /= Idle
  /\ debug_info.kind = "Running"
  /\ debug_info.offset < Len(window)
  /\ At(window, debug_info.offset) = op

\* a + d for a u32 a and an integer d, where the sum is a u32
SignedSum(a, d) == IF d >= 0 THEN BigAdd(a, Big(d)) ELSE BigSub(a, Big(-d))

InU32(a, d) ==
  IF d >= 0 THEN FitsU32(BigAdd(a, Big(d))) ELSE BigLe(Big(-d), a)

\* C25: for every special opcode op in 0x0A..=0xFF, with adj = op - 0x0A, the
\* decoder adds adj / 15 to the address register and the signed amount
\* -4 + (adj % 15) to the line register, then emits one position entry
\* carrying the updated (address, line) and the current flags, and only
\* afterwards clears the prologue-end and epilogue-begin flags (checked where
\* both sums are within the range of the registers)
C25_SpecialOpcode ==
  [][ \A op \in 10..255 :
        LET adj == op - 10
            entry == debug_info.entry
            moved == [entry EXCEPT
                        !.address = SignedSum(@, adj \div 15),
                        !.line = SignedSum(@, (adj % 15) - 4)]
        IN  (AtOpcode(op) /\ InU32(entry.address, adj \div 15)
               /\ InU32(entry.line, (adj % 15) - 4))
              => /\ debug_info'.kind = "Running"
                 /\ debug_info'.visited = Append(debug_info.visited, moved)
                 /\ debug_info'.entry = [moved EXCEPT !.prologue_end = FALSE,
                                                      !.epilogue_begin = FALSE]
    ]_vars

\* C26: DBG_ADVANCE_LINE reads a signed SLEB128 operand and adds it to the
\* line register, so a negative operand lowers the line number by its
\* magnitude; no position entry is emitted by this opcode (checked where the
\* operand is within -2^16 .. 2^16 and the sum within the range of the
\* register)
C26_AdvanceLineIsSigned ==
  [][ LET operand_read == decode_sleb128(window, debug_info.offset + 1)
          d == operand_read.val.value
      IN  (AtOpcode(code.DBG_ADVANCE_LINE) /\ operand_read.kind = "Ok"
             /\ d \in (-Base)..Base /\ InU32(debug_info.entry.line, d))
            => /\ debug_info'.kind = "Running"
               /\ debug_info'.entry
                    = [debug_info.entry EXCEPT !.line = SignedSum(@, d)]
               /\ debug_info'.offset = operand_read.val.pos
               /\ debug_info'.visited = debug_info.visited
    ]_vars

\* C28: for a debug-info stream that begins with a ULEB128 line number, a
\* ULEB128 count c and then c ULEB128p1 values, the parameter-names iterator
\* yields exactly those c values (each the stored value minus one) in stream
\* order, the same sequence that visit_parameter_names passes to its callback
C28_IteratorYieldsTheNames ==
  LET stream == decode_parameter_names(window, 0, FALSE, FALSE)
  IN  stream.kind = "Ok" =>
        /\ decoded /= Idle =>
             decoded.kind = "Ok" /\ decoded.names = stream.names
        /\ iter /= Idle =>
             /\ iter.res.kind = "Ok"
             /\ Len(yielded) <= Len(stream.names)
             /\ yielded = SubSeq(stream.names, 1, Len(yielded))
             /\ iter.item /= Idle =>
                  /\ iter.item.op /= "Panic"
                  /\ iter.item.op = "None" => yielded = stream.names

(***************************************************************************)
(* The tables that are located through the map list.                       *)
(***************************************************************************)
\* the map list of the container lies inside the file: the items its count
\* announces, or nothing
MapItemsInFile ==
  LET b == container.bytes
      map_off == Header(b).map_off
  IN  IF map_off = Big(0) \/ ~IsSmall(map_off) \/ Small(map_off) % 4 /= 0
           \/ Small(map_off) + 4 > Len(b)
        THEN { }
      ELSE LET count == U32At(b, Small(map_off))
           IN  IF ~IsSmall(count)
                    \/ Small(map_off) + 4 + Small(count) * TypeSize["MapItem"]
                         > Len(b)
                 THEN { }
               ELSE { MapItemAt(container, Small(map_off) + 4, i)
                        : i \in 0..(Small(count) - 1) }

\* the section of a map item lies inside the file
SectionInFile(map_item, T) ==
  BigLt(BigAdd(map_item.off, BigMul(map_item.size, TypeSize[T])),
        Big(Len(container.bytes)))

\* C27: after opening a file whose header map_off is non-zero and whose map
\* list lies inside the file, the method-handle and call-site-id tables are
\* populated from the map list: num_method_handles() and
\* num_call_site_ids() equal the sizes given by the MethodHandleItem and
\* CallSiteIdItem map entries whose sections lie inside the file
C27_MapListPopulatesTables ==
  Opened =>
    \A map_item \in MapItemsInFile :
      /\ map_item.type_ = 8 /\ SectionInFile(map_item, "MethodHandleItem")
           => Big(num_items(dex.res, "method_handles")) = map_item.size
      /\ map_item.type_ = 7 /\ SectionInFile(map_item, "CallSiteIdItem")
           => Big(num_items(dex.res, "call_site_ids")) = map_item.size

(***************************************************************************)
(* Instruction::next against the instruction iterator.                     *)
(***************************************************************************)
\* the iterator has just yielded an instruction and Instruction::next was
\* applied to it; pc is the position after that instruction
NextApplied == item.op = "Some" /\ operand /= Idle /\ operand.op = "next"

\* the iterator would yield a further instruction
YieldsFurther == BigLt(pc, Big(Len(instructions)))

\* C29: for an instruction at position pc in a stream of n code units,
\* inst.next() returns the instruction at pc + size_in_code_units exactly
\* when pc + size_in_code_units < n, that is exactly when the iterator would
\* yield a further instruction, and it is that instruction; otherwise it
\* returns BadInstructionOffset
C29_NextIsWhatTheIteratorYields ==
  NextApplied =>
    operand.res = IF YieldsFurther
                    THEN Ok(SliceFrom(instructions, Small(pc)))
                    ELSE Err("BadInstructionOffset")

(***************************************************************************)
(* The section flag of a class member.                                     *)
(***************************************************************************)
\* the flag the section of a member stands for
FlagOfSection(section) == section \in {"static", "direct"}

\* the section flag a Field or a Method carries
SectionFlag(member) ==
  IF member.section \in {"static", "instance"} THEN member.value.is_static
  ELSE member.value.is_static_or_direct

\* C30: the section flag of every member the iterator yields or the visitor
\* is handed names the section the member came from: is_static is true for
\* a static field and false for an instance field, is_static_or_direct is
\* true for a direct method and false for a virtual method
C30_FlagNamesTheSection ==
  \A k \in 1..Len(members) :
    SectionFlag(members[k]) = FlagOfSection(members[k].section)

====
